---- MODULE Spec2Model ----
(***************************************************************************)
(* USGRP-Auth: the authentication engine (src/lib/auth.ts), the session    *)
(* and user store (src/lib/db.ts) and the request handlers that drive      *)
(* them (login, logout, validate, users, approvals, sessions, recovery     *)
(* codes).                                                                 *)
(*                                                                         *)
(* The server is one Node.js process over a synchronous SQLite handle:     *)
(* a handler runs without interruption between two awaits, so every        *)
(* action below is the code between two awaits that touch shared state.    *)
(* Time is counted in minutes.                                             *)
(***************************************************************************)
EXTENDS Integers, Sequences, FiniteSets, TLC

VARIABLES
    users,      \* table users: user id -> row
    sessions,   \* table sessions: set of rows
    approvals,  \* table approval_requests: id -> row
    audit,      \* table audit_log: sequence of rows, in insertion order
    tokens,     \* the JWTs signed with JWT_SECRET so far
    cookie,     \* per browser: the sealed iron-session cookie (SessionData)
    req,        \* per browser: the request in flight (suspended at an await)
    resp,       \* the last response sent or value returned, and to whom
    now,        \* wall clock, minutes
    nextSid,    \* next fresh session id (crypto.randomUUID)
    nextAid,    \* next fresh approval id (crypto.randomUUID)
    ticks,      \* number of clock advances so far
    logged,     \* number of audit rows inserted so far in this run
    auditDown,  \* the INSERT into audit_log throws (database locked or full)
    execCount,  \* per approval id: how many times executeApprovedAction ran
    accepted,   \* per recovery code: how many requests it was accepted for
    devices,    \* table remembered_devices: set of rows
    nextDid,    \* next fresh remembered-device id (crypto.randomUUID)
    call        \* the call of a permission function: arguments and result

vars == <<users, sessions, approvals, audit, tokens, cookie, req, resp, now,
          nextSid, nextAid, ticks, logged, auditDown, execCount, accepted,
          devices, nextDid, call>>

\* state of the approvals and recovery handlers and of the remembered
\* devices, untouched by everything else
apprVars == <<approvals, req, nextAid, execCount, accepted, devices, nextDid, call>>

----------------------------------------------------------------------------
(* Bounds of the model *)

MaxLogins == 3
MaxApprovals == 1
MaxAudit == 3
MaxTicks == 1
MaxDevices == 3

(* Program constants *)

MAX_SESSIONS == 2
SESSION_DURATION == 10080
EXTENDED_SESSION_DURATION == 43200
APPROVAL_TTL == 1440
ADMIN == 3
SUPERUSER == 5
SESSION_TIMEOUT_MINUTES == 10

UserIds == {"u1", "u2", "u3"}
Browsers == {"b1", "b2", "b3"}
TickSteps == {APPROVAL_TTL + 1}
\* clock steps that leave a request of the previous day overdue on the same
\* date, or on a later date
SweepTickSteps == {APPROVAL_TTL + 1, 2 * APPROVAL_TTL}
AuthBrowsers == {"b1", "b2"}
AuthUsers == {"u1", "u2"}
\* recovery codes as generated (upper-case hex)
Codes == {"C1", "C2"}
\* the caller of the library functions and of the validate route
svc == "svc"

null == "null"
EmptyString == 0

----------------------------------------------------------------------------
(* Pure helpers *)

\* String.prototype.toLowerCase on the e-mail addresses the model uses
toLowerCase(e) ==
    CASE e = "U1@x" -> "u1@x"
      [] OTHER -> e

\* bcrypt.hash: one-way, modelled as a tagged value
hashPassword(password) == <<"bcrypt", password>>

verifyPassword(password, hash) == hash = <<"bcrypt", password>>

\* sha256 of the token: one-way, collision-free on the model's tokens
hashToken(token) == <<"sha256", token>>

\* jwtVerify: signature (the token was signed by this server), issuer and
\* audience (constant), and expiry
jwtVerify(token) == token \in tokens /\ now < token.exp

\* A token built by a client without JWT_SECRET: never in tokens
ForgedToken == [userId |-> "u1", authorityLevel |-> 6, sessionId |-> EmptyString,
                exp |-> 0]

NoUser == [id |-> null]
NoToken == [userId |-> null, authorityLevel |-> 0, sessionId |-> EmptyString, exp |-> 0]

getUserById(id) == IF id \in DOMAIN users THEN users[id] ELSE NoUser

getUserByEmail(email) ==
    LET found == {u \in DOMAIN users : users[u].email = toLowerCase(email)}
    IN IF found = {} THEN NoUser ELSE users[CHOOSE u \in found : TRUE]

getSessionByTokenHash(tokenHash) == {s \in sessions : s.token_hash = tokenHash}

\* Date.prototype.toISOString: 'YYYY-MM-DDTHH:MM:SS.sssZ'.  The clock counts
\* minutes, so a timestamp is a day and a minute of that day.
toISOString(t) == [date |-> t \div (24 * 60), sep |-> "T", time |-> t % (24 * 60)]

\* SQLite's datetime(): 'YYYY-MM-DD HH:MM:SS'
datetime(t) == [date |-> t \div (24 * 60), sep |-> " ", time |-> t % (24 * 60)]

\* the code unit of the character between date and time
charCode(sep) == IF sep = "T" THEN 84 ELSE 32

\* a < b as SQLite compares two TEXT values: left to right, by code unit
TextLess(a, b) ==
    \/ a.date < b.date
    \/ /\ a.date = b.date
       /\ \/ charCode(a.sep) < charCode(b.sep)
          \/ charCode(a.sep) = charCode(b.sep) /\ a.time < b.time

\* rows of a user that getUserSessions returns: expires_at, stored by login
\* with toISOString, is compared as text with datetime('now')
getUserSessions(userId) ==
    {s \in sessions : s.user_id = userId
                        /\ TextLess(datetime(now), toISOString(s.expires_at))}

\* an audit writer that keeps only the newest entry
logAudit_Replace(log, userId, action, target) ==
    <<[user_id |-> userId, action |-> action, target |-> target]>>

\* a caller that lets the error of the audit INSERT reach its own result
afterLogAudit_Throws(result) ==
    IF auditDown THEN [result EXCEPT !.status = 500, !.error = "Internal server error",
                                     !.value = FALSE]
    ELSE result

\* what a caller returns after its call of logAudit: logAudit catches the
\* error of its INSERT and returns nothing, so the caller's result stands
afterLogAudit(result) == result

\* the INSERT into audit_log, inside logAudit's try / catch
logAudit(log, userId, action, target) ==
    IF auditDown THEN log
    ELSE Append(log, [user_id |-> userId, action |-> action, target |-> target])

\* the run stops inserting audit rows after MaxAudit of them
CanLog == logged < MaxAudit

\* validateToken that trusts the signature and never looks the session up
validateToken_NoSessionCheck(token) ==
    IF ~jwtVerify(token) THEN [valid |-> FALSE, error |-> "Invalid or expired token"]
    ELSE IF getUserById(token.userId) = NoUser \/ ~getUserById(token.userId).enabled
         THEN [valid |-> FALSE, error |-> "User disabled"]
    ELSE [valid |-> TRUE, error |-> null]

\* validateToken that accepts the token of a disabled user
validateToken_NoEnabledCheck(token) ==
    IF ~jwtVerify(token) THEN [valid |-> FALSE, error |-> "Invalid or expired token"]
    ELSE IF getSessionByTokenHash(hashToken(token)) = {}
         THEN [valid |-> FALSE, error |-> "Session not found or expired"]
    ELSE IF getUserById(token.userId) = NoUser
         THEN [valid |-> FALSE, error |-> "User disabled"]
    ELSE [valid |-> TRUE, error |-> null]

validateToken(token) ==
    IF ~jwtVerify(token) THEN [valid |-> FALSE, error |-> "Invalid or expired token"]
    ELSE IF getSessionByTokenHash(hashToken(token)) = {}
         THEN [valid |-> FALSE, error |-> "Session not found or expired"]
    ELSE IF getUserById(token.userId) = NoUser \/ ~getUserById(token.userId).enabled
         THEN [valid |-> FALSE, error |-> "User disabled"]
    ELSE [valid |-> TRUE, error |-> null]

----------------------------------------------------------------------------
(* Initial state: the database after bootstrap and user provisioning,      *)
(* nobody logged in.                                                       *)

UserRow(id, email, pw, level) ==
    [id |-> id, email |-> email, password_hash |-> hashPassword(pw),
     authority_level |-> level, enabled |-> TRUE, suspended |-> FALSE,
     totp_enabled |-> FALSE, recovery_codes |-> <<>>]

InitUsers ==
    [u \in UserIds |->
        CASE u = "u1" -> UserRow("u1", "u1@x", "pw1", SUPERUSER)
          [] u = "u2" -> UserRow("u2", "u2@x", "pw2", ADMIN)
          [] OTHER    -> UserRow("u3", "u3@x", "pw3", ADMIN)]

defaultSession ==
    [isLoggedIn |-> FALSE, authToken |-> NoToken, user |-> NoUser,
     pending2FA |-> FALSE, pendingUserId |-> null]

Idle == [op |-> "none", aid |-> 0, decision |-> null, code |-> null,
         snap |-> <<>>, status |-> 0, error |-> null, wrote |-> FALSE,
         raced |-> FALSE]

NoResp ==
    [to |-> null, op |-> "none", arg |-> NoToken, status |-> 0, error |-> null,
     value |-> FALSE, flag |-> null]

\* no permission function has been called
NoCall == [fn |-> "none", authorityLevel |-> 0, explicitPermissions |-> <<>>,
           requiredPermission |-> null, requiredLevel |-> 0, result |-> null]

Init ==
    /\ users = InitUsers
    /\ sessions = {}
    /\ approvals = <<>>
    /\ audit = <<>>
    /\ tokens = {}
    /\ cookie = [b \in Browsers |-> defaultSession]
    /\ req = [b \in Browsers |-> Idle]
    /\ resp = NoResp
    /\ now = 0
    /\ nextSid = 1
    /\ nextAid = 1
    /\ ticks = 0
    /\ logged = 0
    /\ auditDown = FALSE
    /\ execCount = [a \in 1..MaxApprovals |-> 0]
    /\ accepted = [c \in Codes |-> 0]
    /\ devices = {}
    /\ nextDid = 1
    /\ call = NoCall

----------------------------------------------------------------------------
(* Session store (src/lib/db.ts) *)

\* INSERT INTO sessions: rejected (caught, returns null) when the token hash
\* is already stored (UNIQUE) or the user row is gone (FOREIGN KEY)
createSession(rows, session) ==
    IF \/ session.user_id \notin DOMAIN users
       \/ \E s \in rows : s.token_hash = session.token_hash \/ s.id = session.id
    THEN rows
    ELSE rows \cup {session}

\* deleteSession that leaves the row in place
deleteSession_Noop(rows, sessionId) == rows

deleteSession(rows, sessionId) == {s \in rows : s.id # sessionId}

\* deleteAllUserSessions that leaves the rows in place
deleteAllUserSessions_Keep(rows, userId, exceptSessionId) == rows

\* deleteAllUserSessions whose DELETE has no WHERE user_id = ?
deleteAllUserSessions_Everyone(rows, userId, exceptSessionId) == {}

\* `if (exceptSessionId)`: the empty string is falsy, so it excepts nothing
deleteAllUserSessions(rows, userId, exceptSessionId) ==
    IF exceptSessionId # EmptyString
    THEN {s \in rows : ~(s.user_id = userId /\ s.id # exceptSessionId)}
    ELSE {s \in rows : s.user_id # userId}

\* a sessions table whose foreign key does not cascade
OnDeleteCascade_Off(rows, userId) == rows

\* sessions.user_id REFERENCES users(id) ON DELETE CASCADE: the rows that
\* are left after the user row was deleted (better-sqlite3 is built with
\* foreign keys enforced by default)
OnDeleteCascade(rows, userId) == {s \in rows : s.user_id # userId}

----------------------------------------------------------------------------
(* Token service (src/lib/auth.ts) *)

\* a token service that gives every token the normal lifetime
createToken_NeverExtended(user, sessionId, extended) ==
    [userId |-> user.id, authorityLevel |-> user.authority_level,
     sessionId |-> sessionId, exp |-> now + SESSION_DURATION]

createToken(user, sessionId, extended) ==
    [userId |-> user.id, authorityLevel |-> user.authority_level,
     sessionId |-> sessionId,
     exp |-> now + (IF extended THEN EXTENDED_SESSION_DURATION ELSE SESSION_DURATION)]

Respond(b, r) == resp' = [r EXCEPT !.to = b]

\* every row the handler appended to the audit log is counted
Logged == logged' = logged + Len(audit') - Len(audit) /\ UNCHANGED auditDown

Reply(op, status, error) ==
    [to |-> null, op |-> op, arg |-> NoToken, status |-> status, error |-> error,
     value |-> status = 200, flag |-> null]

\* the reply to a call that was given a token
ReplyFor(token, op, status, error) == [Reply(op, status, error) EXCEPT !.arg = token]

----------------------------------------------------------------------------
(* POST /api/auth/login -> login() *)

\* the (email, password) pairs clients submit
LoginInputs(b) ==
    CASE b = "b1" -> {<<"U1@x", "pw1">>}
      [] b = "b2" -> {<<"u2@x", "pw2">>, <<"u2@x", "bad">>, <<"ghost@x", "pw2">>}
      [] OTHER    -> {<<"u3@x", "pw3">>}

\* a login that tells the caller what it wrote to the audit log
loginError_Revealing(details) == details

\* the error login returns for the failure it audits with these details
loginError(details) ==
    IF details = "Account disabled" THEN "Account disabled" ELSE "Invalid credentials"

\* a login that never asks for the second factor
requires2FA_Never(user) == FALSE

\* `if (user.totp_enabled)` (auth.ts line 187)
requires2FA(user) == user.totp_enabled

\* login() and the route's cookie update.  The two awaits inside login()
\* (verifyPassword, createToken) separate only reads of the user row read at
\* the top from the insert at the bottom.
Login(b, email, password, rememberMe) ==
    /\ CanLog
    /\ LET user == getUserByEmail(email) IN
       IF user = NoUser THEN
            /\ audit' = logAudit(audit, null, "LOGIN_FAILED", email)
            /\ Respond(b, afterLogAudit(Reply("login", 401, loginError("User not found"))))
            /\ UNCHANGED <<sessions, tokens, cookie, nextSid>>
       ELSE IF ~user.enabled THEN
            /\ audit' = logAudit(audit, user.id, "LOGIN_FAILED", email)
            /\ Respond(b, afterLogAudit(Reply("login", 401, loginError("Account disabled"))))
            /\ UNCHANGED <<sessions, tokens, cookie, nextSid>>
       ELSE IF ~verifyPassword(password, user.password_hash) THEN
            /\ audit' = logAudit(audit, user.id, "LOGIN_FAILED", email)
            /\ Respond(b, afterLogAudit(Reply("login", 401, loginError("Invalid password"))))
            /\ UNCHANGED <<sessions, tokens, cookie, nextSid>>
       ELSE IF requires2FA(user) THEN
            /\ audit' = logAudit(audit, user.id, "LOGIN_2FA_REQUIRED", email)
            \* result.user is undefined on this path
            /\ cookie' = [cookie EXCEPT ![b].pending2FA = TRUE,
                                        ![b].pendingUserId = null,
                                        ![b].isLoggedIn = FALSE]
            /\ Respond(b, afterLogAudit(Reply("login2fa", 200, null)))
            /\ UNCHANGED <<sessions, tokens, nextSid>>
       ELSE
            /\ nextSid <= MaxLogins
            /\ LET sessionId == nextSid
                   token == createToken(user, sessionId, rememberMe)
                   expiresIn == IF rememberMe THEN EXTENDED_SESSION_DURATION
                                ELSE SESSION_DURATION
               IN
               /\ tokens' = tokens \cup {token}
               /\ sessions' = createSession(sessions,
                      [id |-> sessionId, user_id |-> user.id,
                       token_hash |-> hashToken(token), last_active |-> now,
                       is_remembered |-> rememberMe, expires_at |-> now + expiresIn])
               /\ audit' = logAudit(audit, user.id, "LOGIN_SUCCESS", email)
               /\ cookie' = [cookie EXCEPT ![b].authToken = token,
                      ![b].user = [id |-> user.id, userId |-> user.id,
                                   authorityLevel |-> user.authority_level,
                                   sessionId |-> EmptyString],
                      ![b].isLoggedIn = TRUE,
                      ![b].pending2FA = FALSE]
               /\ Respond(b, afterLogAudit(Reply("login", 200, null)))
               /\ nextSid' = nextSid + 1
    /\ Logged
    /\ UNCHANGED <<users, now, ticks>>
    /\ UNCHANGED apprVars

----------------------------------------------------------------------------
(* POST/GET /api/auth/validate -> validateToken() *)

\* tokens a client can present: any signed token, or one it made up
PresentedTokens == tokens \cup {ForgedToken}

ValidateRoute(token, service) ==
    /\ CanLog
    /\ LET result == validateToken(token) IN
       IF ~result.valid THEN
            /\ Respond(svc, ReplyFor(token, "validate", 401, result.error))
            /\ UNCHANGED audit
       ELSE
            /\ audit' = IF service THEN logAudit(audit, token.userId, "SSO_ACCESS", svc)
                        ELSE audit
            /\ Respond(svc, ReplyFor(token, "validate", 200, null))
    /\ Logged
    /\ UNCHANGED <<users, sessions, tokens, cookie, now, nextSid, ticks>>
    /\ UNCHANGED apprVars

----------------------------------------------------------------------------
(* login() with its first await made visible: the user row is read before   *)
(* `await verifyPassword`, the session is inserted after it, and other      *)
(* requests run in between.                                                 *)

\* login() up to `await verifyPassword`: the lookup and the enabled check
Login_read(b, email, password, rememberMe) ==
    /\ CanLog
    /\ req[b].op = "none"
    /\ LET user == getUserByEmail(email) IN
       IF user = NoUser THEN
            /\ audit' = logAudit(audit, null, "LOGIN_FAILED", email)
            /\ Respond(b, afterLogAudit(Reply("login", 401, loginError("User not found"))))
            /\ UNCHANGED req
       ELSE IF ~user.enabled THEN
            /\ audit' = logAudit(audit, user.id, "LOGIN_FAILED", email)
            /\ Respond(b, afterLogAudit(Reply("login", 401, loginError("Account disabled"))))
            /\ UNCHANGED req
       ELSE
            /\ req' = [req EXCEPT ![b] = [Idle EXCEPT !.op = "login", !.code = password,
                                                      !.snap = <<user, email, rememberMe>>]]
            /\ UNCHANGED <<audit, resp>>
    /\ Logged
    /\ UNCHANGED <<users, sessions, approvals, tokens, cookie, now, nextSid, nextAid,
                   ticks, execCount, accepted, devices, nextDid, call>>

\* login() after the await, with the user row it read before, and the
\* route's cookie update.  The value createSession returns is not looked at.
Login_write(b) ==
    /\ CanLog
    /\ req[b].op = "login"
    /\ LET user == req[b].snap[1]
           email == req[b].snap[2]
           rememberMe == req[b].snap[3]
       IN
       IF ~verifyPassword(req[b].code, user.password_hash) THEN
            /\ audit' = logAudit(audit, user.id, "LOGIN_FAILED", email)
            /\ Respond(b, afterLogAudit(Reply("login", 401, loginError("Invalid password"))))
            /\ UNCHANGED <<sessions, tokens, cookie, nextSid>>
       ELSE IF requires2FA(user) THEN
            /\ audit' = logAudit(audit, user.id, "LOGIN_2FA_REQUIRED", email)
            /\ cookie' = [cookie EXCEPT ![b].pending2FA = TRUE,
                                        ![b].pendingUserId = null,
                                        ![b].isLoggedIn = FALSE]
            /\ Respond(b, afterLogAudit(Reply("login2fa", 200, null)))
            /\ UNCHANGED <<sessions, tokens, nextSid>>
       ELSE
            /\ nextSid <= MaxLogins
            /\ LET sessionId == nextSid
                   token == createToken(user, sessionId, rememberMe)
                   expiresIn == IF rememberMe THEN EXTENDED_SESSION_DURATION
                                ELSE SESSION_DURATION
               IN
               /\ tokens' = tokens \cup {token}
               /\ sessions' = createSession(sessions,
                      [id |-> sessionId, user_id |-> user.id,
                       token_hash |-> hashToken(token), last_active |-> now,
                       is_remembered |-> rememberMe, expires_at |-> now + expiresIn])
               /\ audit' = logAudit(audit, user.id, "LOGIN_SUCCESS", email)
               /\ cookie' = [cookie EXCEPT ![b].authToken = token,
                      ![b].user = [id |-> user.id, userId |-> user.id,
                                   authorityLevel |-> user.authority_level,
                                   sessionId |-> EmptyString],
                      ![b].isLoggedIn = TRUE,
                      ![b].pending2FA = FALSE]
               /\ Respond(b, afterLogAudit(Reply("login", 200, null)))
               /\ nextSid' = nextSid + 1
    /\ req' = [req EXCEPT ![b] = Idle]
    /\ Logged
    /\ UNCHANGED <<users, approvals, now, nextAid, ticks, execCount, accepted,
                   devices, nextDid, call>>

----------------------------------------------------------------------------

(* logout(token, ip), called directly or by POST /api/auth/logout *)

\* the route clears the cookie whatever logout returned
ClearCookie(b) ==
    cookie' = [cookie EXCEPT ![b].authToken = NoToken, ![b].user = NoUser,
                             ![b].isLoggedIn = FALSE, ![b].pending2FA = FALSE,
                             ![b].pendingUserId = null]

\* logout(token, ip); with route = TRUE, the route around it, which passes the
\* cookie's token and clears the cookie whatever logout returned
Logout(b, token, route) ==
    /\ CanLog
    /\ IF route THEN b \in Browsers /\ token = cookie[b].authToken ELSE b = svc
    /\ LET session == getSessionByTokenHash(hashToken(token))
           called == ~route \/ token # NoToken        \* `if (session.authToken)`
           value == called /\ validateToken(token).valid /\ session # {}
       IN
       /\ IF value THEN
               /\ sessions' = deleteSession(sessions, (CHOOSE s \in session : TRUE).id)
               /\ audit' = logAudit(audit, token.userId, "LOGOUT", token.userId)
          ELSE UNCHANGED <<sessions, audit>>
       /\ IF route THEN ClearCookie(b) /\ Respond(b, Reply("logoutRoute", 200, null))
          ELSE /\ Respond(svc, afterLogAudit([ReplyFor(token, "logout", 200, null)
                                                   EXCEPT !.value = value]))
               /\ UNCHANGED cookie
    /\ Logged
    /\ UNCHANGED <<users, tokens, now, nextSid, ticks>>
    /\ UNCHANGED apprVars

\* logoutAll(userId, ip)
LogoutAll(userId) ==
    /\ CanLog
    /\ sessions' = deleteAllUserSessions(sessions, userId, EmptyString)
    /\ audit' = logAudit(audit, userId, "LOGOUT_ALL", null)
    /\ Respond(svc, afterLogAudit(Reply("logoutAll", 200, null)))
    /\ Logged
    /\ UNCHANGED <<users, tokens, cookie, now, nextSid, ticks>>
    /\ UNCHANGED apprVars

----------------------------------------------------------------------------
(* enforceSessionLimit(userId) (src/lib/db.ts).  Rows with equal last_active *)
(* come out of ORDER BY and the sort in an order the code does not fix, so    *)
(* which of them is kept is a choice.                                         *)

enforceSessionLimit(userId) ==
    /\ LET found == getUserSessions(userId) IN
       IF Cardinality(found) >= MAX_SESSIONS THEN
            \E sessionsToKeep \in SUBSET found :
                /\ Cardinality(sessionsToKeep) = MAX_SESSIONS - 1
                /\ \A k \in sessionsToKeep, d \in found \ sessionsToKeep :
                        k.last_active >= d.last_active
                /\ sessions' = sessions \ (found \ sessionsToKeep)
       ELSE UNCHANGED sessions
    /\ Respond(svc, Reply("enforceSessionLimit", 200, null))
    /\ UNCHANGED <<users, audit, tokens, cookie, now, nextSid, ticks, logged, auditDown>>
    /\ UNCHANGED apprVars

----------------------------------------------------------------------------
(* cleanExpiredSessions() (src/lib/db.ts): expires_at is ISO text, compared   *)
(* as text with datetime('now'); last_active was written by datetime('now')   *)
(* and is compared with datetime('now', '-10 minutes').  The WHERE clause     *)
(* does not read is_remembered.                                               *)

cleanExpiredSessions ==
    /\ sessions' = {s \in sessions :
            ~(\/ TextLess(toISOString(s.expires_at), datetime(now))
              \/ TextLess(datetime(s.last_active),
                          datetime(now - SESSION_TIMEOUT_MINUTES)))}
    /\ Respond(svc, Reply("cleanExpiredSessions", 200, null))
    /\ UNCHANGED <<users, audit, tokens, cookie, now, nextSid, ticks, logged, auditDown>>
    /\ UNCHANGED apprVars

----------------------------------------------------------------------------

(* DELETE /api/sessions: kill one session, or all but the current one *)

SessionsDELETE(b, sessionId, all) ==
    /\ CanLog
    /\ IF ~cookie[b].isLoggedIn \/ cookie[b].user = NoUser THEN
            /\ Respond(b, Reply("sessions.DELETE", 401, "Unauthorized"))
            /\ UNCHANGED <<sessions, audit>>
       ELSE
         LET userId == cookie[b].user.userId
             currentSessionId == cookie[b].user.sessionId
         IN
         IF all THEN
            /\ sessions' = deleteAllUserSessions(sessions, userId, currentSessionId)
            /\ audit' = logAudit(audit, userId, "SESSIONS_KILL_ALL", null)
            /\ Respond(b, Reply("sessions.DELETE", 200, null))
         ELSE IF sessionId = EmptyString THEN
            /\ Respond(b, Reply("sessions.DELETE", 400, "Session ID required"))
            /\ UNCHANGED <<sessions, audit>>
         ELSE IF sessionId = currentSessionId THEN
            /\ Respond(b, Reply("sessions.DELETE", 400, "Cannot kill current session"))
            /\ UNCHANGED <<sessions, audit>>
         ELSE IF ~\E s \in getUserSessions(userId) : s.id = sessionId THEN
            /\ Respond(b, Reply("sessions.DELETE", 404, "Session not found"))
            /\ UNCHANGED <<sessions, audit>>
         ELSE
            /\ sessions' = deleteSession(sessions, sessionId)
            /\ audit' = logAudit(audit, userId, "SESSION_KILL", sessionId)
            /\ Respond(b, Reply("sessions.DELETE", 200, null))
    /\ Logged
    /\ UNCHANGED <<users, tokens, cookie, now, nextSid, ticks>>
    /\ UNCHANGED apprVars

----------------------------------------------------------------------------
(* suspendUser / unsuspendUser (src/lib/db.ts) *)

suspendUser(userId) ==
    /\ IF userId \in DOMAIN users THEN
            /\ users' = [users EXCEPT ![userId].suspended = TRUE]
            /\ sessions' = deleteAllUserSessions(sessions, userId, EmptyString)
            /\ Respond(svc, [Reply("suspendUser", 200, null) EXCEPT !.value = TRUE])
       ELSE
            /\ Respond(svc, [Reply("suspendUser", 200, null) EXCEPT !.value = FALSE])
            /\ UNCHANGED <<users, sessions>>
    /\ UNCHANGED <<audit, tokens, cookie, now, nextSid, ticks, logged, auditDown>>
    /\ UNCHANGED apprVars

unsuspendUser(userId) ==
    /\ IF userId \in DOMAIN users THEN
            /\ users' = [users EXCEPT ![userId].suspended = FALSE]
            /\ Respond(svc, [Reply("unsuspendUser", 200, null) EXCEPT !.value = TRUE])
       ELSE
            /\ Respond(svc, [Reply("unsuspendUser", 200, null) EXCEPT !.value = FALSE])
            /\ UNCHANGED users
    /\ UNCHANGED <<sessions, audit, tokens, cookie, now, nextSid, ticks, logged, auditDown>>
    /\ UNCHANGED apprVars

----------------------------------------------------------------------------
(* /api/approvals: the two-person rule *)

\* an allow-list that also takes plain user updates
APPROVAL_REQUIRED_ACTIONS_WithUpdate ==
    {"USER_DELETE", "AUTHORITY_CHANGE_ADMIN", "USER_SUSPEND", "USER_UNSUSPEND",
     "RESET_2FA_ADMIN", "USER_UPDATE"}

APPROVAL_REQUIRED_ACTIONS ==
    {"USER_DELETE", "AUTHORITY_CHANGE_ADMIN", "USER_SUSPEND", "USER_UNSUSPEND",
     "RESET_2FA_ADMIN"}

\* approval_requests.requester_id and approver_id reference users(id): a user
\* row that a request refers to cannot be deleted
Referenced(rows, userId) ==
    \E a \in DOMAIN rows : rows[a].requester_id = userId \/ rows[a].approver_id = userId

\* the cookie checks every admin route starts with
CookieCheck(b, level) ==
    IF ~cookie[b].isLoggedIn \/ cookie[b].user = NoUser THEN 401
    ELSE IF cookie[b].user.authorityLevel < level THEN 403
    ELSE 200

\* a sweep that expires every row past its expiry, whatever its status
SweepExpired_All(rows) ==
    [a \in DOMAIN rows |->
        IF TextLess(toISOString(rows[a].expires_at), datetime(now))
        THEN [rows[a] EXCEPT !.status = "expired"] ELSE rows[a]]

\* the sweep at the top of GET: `status = 'pending' AND expires_at <
\* datetime('now')`, where expires_at was stored by POST with toISOString
SweepExpired(rows) ==
    [a \in DOMAIN rows |->
        IF rows[a].status = "pending"
           /\ TextLess(toISOString(rows[a].expires_at), datetime(now))
        THEN [rows[a] EXCEPT !.status = "expired"] ELSE rows[a]]

ApprovalsGET(b) ==
    /\ IF CookieCheck(b, ADMIN) = 401 THEN
            /\ Respond(b, Reply("approvals.GET", 401, "Unauthorized"))
            /\ UNCHANGED approvals
       ELSE IF CookieCheck(b, ADMIN) = 403 THEN
            /\ Respond(b, Reply("approvals.GET", 403, "Insufficient permissions"))
            /\ UNCHANGED approvals
       ELSE
            /\ approvals' = SweepExpired(approvals)
            /\ Respond(b, Reply("approvals.GET", 200, null))
    /\ UNCHANGED <<users, sessions, audit, tokens, cookie, req, now, nextSid,
                   nextAid, ticks, logged, auditDown, execCount, accepted, devices,
                   nextDid, call>>

\* the request bodies clients submit: action type, target user, newLevel
\* (0: no action data)
ApprovalInputs ==
    {<<"USER_SUSPEND", "u3", 0>>, <<"USER_DELETE", "u3", 0>>,
     <<"AUTHORITY_CHANGE_ADMIN", "u2", SUPERUSER>>, <<"USER_UPDATE", "u3", 0>>,
     <<"AUTHORITY_CHANGE_ADMIN", "u2", 0>>}

ApprovalsPOST(b, actionType, targetUser, newLevel) ==
    /\ CanLog
    /\ IF CookieCheck(b, ADMIN) = 401 THEN
            /\ Respond(b, Reply("approvals.POST", 401, "Unauthorized"))
            /\ UNCHANGED <<approvals, audit, nextAid>>
       ELSE IF CookieCheck(b, ADMIN) = 403 THEN
            /\ Respond(b, Reply("approvals.POST", 403, "Insufficient permissions"))
            /\ UNCHANGED <<approvals, audit, nextAid>>
       ELSE IF actionType \notin APPROVAL_REQUIRED_ACTIONS THEN
            /\ Respond(b, Reply("approvals.POST", 400, "This action does not require approval"))
            /\ UNCHANGED <<approvals, audit, nextAid>>
       ELSE IF cookie[b].user.userId \notin DOMAIN users THEN
            \* the insert violates the foreign key and throws
            /\ Respond(b, Reply("approvals.POST", 500, "Server error"))
            /\ UNCHANGED <<approvals, audit, nextAid>>
       ELSE
            /\ nextAid <= MaxApprovals
            /\ approvals' = Append(approvals,
                   [id |-> nextAid, requester_id |-> cookie[b].user.userId,
                    action_type |-> actionType, target_user |-> targetUser,
                    newLevel |-> newLevel, status |-> "pending",
                    approver_id |-> null, expires_at |-> now + APPROVAL_TTL])
            /\ audit' = logAudit(audit, cookie[b].user.userId, "APPROVAL_REQUESTED", targetUser)
            /\ nextAid' = nextAid + 1
            /\ Respond(b, Reply("approvals.POST", 200, null))
    /\ Logged
    /\ UNCHANGED <<users, sessions, tokens, cookie, req, now, nextSid, ticks,
                   execCount, accepted, devices, nextDid, call>>

\* users without the row of userId; its sessions go with it (ON DELETE CASCADE)
RemoveUser(rows, userId) == [u \in DOMAIN rows \ {userId} |-> rows[u]]

\* executeApprovedAction(approval, db), over the approval table as it is
\* after the decision was written
executeApprovedAction(approval, rows) ==
    LET t == approval.target_user
        same == [users |-> users, sessions |-> sessions]
        done(r) == [users |-> r.users, sessions |-> r.sessions,
                    executed |-> TRUE, threw |-> FALSE]
        set(f, v) == IF t \in DOMAIN users THEN [users EXCEPT ![t][f] = v] ELSE users
    IN
    IF t = null THEN
        [users |-> users, sessions |-> sessions, executed |-> FALSE, threw |-> FALSE]
    ELSE IF approval.action_type = "USER_DELETE" THEN
        IF t \in DOMAIN users /\ Referenced(rows, t)
        THEN [users |-> users, sessions |-> sessions, executed |-> FALSE, threw |-> TRUE]
        ELSE done([users |-> RemoveUser(users, t),
                   sessions |-> OnDeleteCascade(sessions, t)])
    ELSE IF approval.action_type = "USER_SUSPEND" THEN
        done([users |-> set("suspended", TRUE),
              sessions |-> {s \in sessions : s.user_id # t}])
    ELSE IF approval.action_type = "USER_UNSUSPEND" THEN
        done([same EXCEPT !.users = set("suspended", FALSE)])
    ELSE IF approval.action_type = "AUTHORITY_CHANGE_ADMIN" /\ approval.newLevel # 0 THEN
        done([same EXCEPT !.users = set("authority_level", approval.newLevel)])
    ELSE IF approval.action_type = "RESET_2FA_ADMIN" THEN
        done([same EXCEPT !.users = set("totp_enabled", FALSE)])
    ELSE
        [users |-> users, sessions |-> sessions, executed |-> FALSE, threw |-> FALSE]

\* PUT, up to `await request.json()`: the cookie checks and the validation of
\* the body; the handler then continues in ApprovalsPUT_decide
ApprovalsPUT_begin(b, approvalId, decision) ==
    /\ req[b].op # "decide"
    /\ IF CookieCheck(b, ADMIN) = 401 THEN
            /\ Respond(b, Reply("approvals.PUT", 401, "Unauthorized"))
            /\ UNCHANGED req
       ELSE IF CookieCheck(b, ADMIN) = 403 THEN
            /\ Respond(b, Reply("approvals.PUT", 403, "Insufficient permissions"))
            /\ UNCHANGED req
       ELSE IF decision \notin {"approved", "denied"} THEN
            /\ Respond(b, Reply("approvals.PUT", 400, "Decision must be approved or denied"))
            /\ UNCHANGED req
       ELSE
            /\ req' = [req EXCEPT ![b] = [Idle EXCEPT !.op = "decide",
                                           !.aid = approvalId, !.decision = decision]]
            /\ UNCHANGED resp
    /\ UNCHANGED <<users, sessions, approvals, audit, tokens, cookie, now, nextSid,
                   nextAid, ticks, logged, auditDown, execCount, accepted, devices,
                   nextDid, call>>

\* a handler without the two-person rule
IsOwnRequest_Never(approval, userId) == FALSE

\* the two-person rule (route.ts line 178)
IsOwnRequest(approval, userId) == approval.requester_id = userId

\* a handler that trusts a status it looked at earlier
StillPending_Stale(approval) == TRUE

\* the status check (route.ts line 173)
StillPending(approval) == approval.status = "pending"

\* a handler that never finds a request overdue
IsExpired_Never(approval) == FALSE

\* `new Date(approval.expires_at) < new Date()` (route.ts line 185): both
\* sides are parsed to times before they are compared
IsExpired(approval) == approval.expires_at < now

\* the response of PUT, kept in the browser's request slot with whether the
\* decision was written and whether another PUT for the same request was in
\* flight when this one ran
PutReply(b, aid, status, error, wrote) ==
    /\ req' = [req EXCEPT ![b] =
                 [Idle EXCEPT !.op = "done", !.aid = aid,
                  !.status = status, !.error = error, !.wrote = wrote,
                  !.raced = \E c \in Browsers \ {b} :
                                req[c].op = "decide" /\ req[c].aid = aid]]
    /\ UNCHANGED resp

\* PUT from the SELECT to the response: no await yields in between
\* (executeApprovedAction is async but contains no await)
ApprovalsPUT_decide(b) ==
    /\ req[b].op = "decide"
    /\ CanLog
    /\ LET approvalId == req[b].aid
           decision == req[b].decision
           userId == cookie[b].user.userId
       IN
       IF approvalId \notin DOMAIN approvals THEN
            /\ PutReply(b, approvalId, 404, "Approval request not found", FALSE)
            /\ UNCHANGED <<users, sessions, approvals, audit, execCount>>
       ELSE IF ~StillPending(approvals[approvalId]) THEN
            /\ PutReply(b, approvalId, 400, "Request already resolved", FALSE)
            /\ UNCHANGED <<users, sessions, approvals, audit, execCount>>
       ELSE IF IsOwnRequest(approvals[approvalId], userId) THEN
            /\ PutReply(b, approvalId, 403, "Cannot approve your own request", FALSE)
            /\ UNCHANGED <<users, sessions, approvals, audit, execCount>>
       ELSE IF IsExpired(approvals[approvalId]) THEN
            /\ approvals' = [approvals EXCEPT ![approvalId].status = "expired"]
            /\ PutReply(b, approvalId, 400, "Request has expired", FALSE)
            /\ UNCHANGED <<users, sessions, audit, execCount>>
       ELSE IF userId \notin DOMAIN users THEN
            \* approver_id violates the foreign key: the UPDATE throws
            /\ PutReply(b, approvalId, 500, "Server error", FALSE)
            /\ UNCHANGED <<users, sessions, approvals, audit, execCount>>
       ELSE
         LET rows == [approvals EXCEPT ![approvalId].status = decision,
                                       ![approvalId].approver_id = userId]
             result == executeApprovedAction(approvals[approvalId], rows)
         IN
            /\ approvals' = rows
            /\ audit' = logAudit(audit, userId,
                   IF decision = "approved" THEN "APPROVAL_APPROVED" ELSE "APPROVAL_DENIED",
                   approvals[approvalId].target_user)
            /\ IF decision = "approved" THEN
                    /\ users' = result.users
                    /\ sessions' = result.sessions
                    /\ execCount' = [execCount EXCEPT ![approvalId] = @ + 1]
                    /\ IF result.threw
                       THEN PutReply(b, approvalId, 500, "Server error", TRUE)
                       ELSE PutReply(b, approvalId, 200, null, TRUE)
               ELSE
                    /\ PutReply(b, approvalId, 200, null, TRUE)
                    /\ UNCHANGED <<users, sessions, execCount>>
    /\ Logged
    /\ UNCHANGED <<tokens, cookie, now, nextSid, nextAid, ticks, accepted, devices,
                   nextDid, call>>

----------------------------------------------------------------------------
(* /api/users: PUT and DELETE *)

\* deleteUser(id): false when no row was deleted, or when the delete threw
deleteUser(id) == id \in DOMAIN users /\ ~Referenced(approvals, id)

UsersDELETE(b, userId) ==
    /\ CanLog
    /\ IF CookieCheck(b, SUPERUSER) = 401 THEN
            /\ Respond(b, Reply("users.DELETE", 401, "Unauthorized"))
            /\ UNCHANGED <<users, sessions, audit>>
       ELSE IF CookieCheck(b, SUPERUSER) = 403 THEN
            /\ Respond(b, Reply("users.DELETE", 403, "Forbidden - SUPERUSER required"))
            /\ UNCHANGED <<users, sessions, audit>>
       ELSE IF userId = cookie[b].user.userId THEN
            /\ Respond(b, Reply("users.DELETE", 400, "Cannot delete yourself"))
            /\ UNCHANGED <<users, sessions, audit>>
       ELSE IF ~deleteUser(userId) THEN
            /\ Respond(b, Reply("users.DELETE", 400, "Failed to delete user"))
            /\ UNCHANGED <<users, sessions, audit>>
       ELSE
            /\ users' = RemoveUser(users, userId)
            /\ sessions' = OnDeleteCascade(sessions, userId)
            /\ audit' = logAudit(audit, cookie[b].user.userId, "USER_DELETED", userId)
            /\ Respond(b, Reply("users.DELETE", 200, null))
    /\ Logged
    /\ UNCHANGED <<tokens, cookie, now, nextSid, ticks>>
    /\ UNCHANGED apprVars

\* the bodies clients submit: target, authorityLevel (0: absent), enabled
\* ("on", "off", or "keep": absent)
UserUpdates ==
    {<<"u3", 0, "off">>, <<"u2", SUPERUSER, "keep">>, <<"u3", 1, "keep">>,
     <<"u3", 0, "keep">>}

\* updateUser(id, updates) restricted to authority_level and enabled
updateUser(rows, id, authorityLevel, enabled) ==
    [rows EXCEPT ![id].authority_level = IF authorityLevel # 0 THEN authorityLevel ELSE @,
                 ![id].enabled = IF enabled # "keep" THEN enabled = "on" ELSE @]

UsersPUT(b, userId, authorityLevel, enabled) ==
    /\ CanLog
    /\ IF CookieCheck(b, ADMIN) = 401 THEN
            /\ Respond(b, Reply("users.PUT", 401, "Unauthorized"))
            /\ UNCHANGED <<users, audit>>
       ELSE IF CookieCheck(b, ADMIN) = 403 THEN
            /\ Respond(b, Reply("users.PUT", 403, "Forbidden"))
            /\ UNCHANGED <<users, audit>>
       ELSE IF authorityLevel > cookie[b].user.authorityLevel THEN
            /\ Respond(b, Reply("users.PUT", 403, "Cannot set authority higher than yourself"))
            /\ UNCHANGED <<users, audit>>
       ELSE IF (authorityLevel = 0 /\ enabled = "keep") \/ userId \notin DOMAIN users THEN
            /\ Respond(b, Reply("users.PUT", 400, "Failed to update user"))
            /\ UNCHANGED <<users, audit>>
       ELSE
            /\ users' = updateUser(users, userId, authorityLevel, enabled)
            /\ audit' = logAudit(audit, cookie[b].user.userId, "USER_UPDATED", userId)
            /\ Respond(b, Reply("users.PUT", 200, null))
    /\ Logged
    /\ UNCHANGED <<sessions, tokens, cookie, now, nextSid, ticks>>
    /\ UNCHANGED apprVars

----------------------------------------------------------------------------
(* User management with mail provisioning: POST /api/users, the combined   *)
(* user + mailbox routes (POST, PUT, DELETE) and the password change.      *)
(* The mail server's answer to a provisioning call is an input, mailOk.    *)

\* JSON of a boolean in a response body
Flag(bool) == IF bool THEN "true" ELSE "false"

\* the id generateId() / randomUUID() gives the next user
NewUserId == "u4"

\* the bodies clients submit to create a user: email, authorityLevel (0:
\* absent, and USER is 0)
CreateInputs == {<<"new@x", SUPERUSER>>, <<"new@x", ADMIN>>, <<"u3@x", 0>>}

\* the row both creation routes insert
NewUserRow(email, authorityLevel) ==
    UserRow(NewUserId, toLowerCase(email), "pw4", authorityLevel)

InsertUser(rows, row) ==
    [u \in DOMAIN rows \cup {row.id} |-> IF u = row.id THEN row ELSE rows[u]]

\* POST /api/users
UsersPOST(b, email, authorityLevel) ==
    /\ CanLog
    /\ IF CookieCheck(b, ADMIN) = 401 THEN
            /\ Respond(b, Reply("users.POST", 401, "Unauthorized"))
            /\ UNCHANGED <<users, audit>>
       ELSE IF CookieCheck(b, ADMIN) = 403 THEN
            /\ Respond(b, Reply("users.POST", 403, "Forbidden"))
            /\ UNCHANGED <<users, audit>>
       ELSE IF authorityLevel > cookie[b].user.authorityLevel THEN
            /\ Respond(b, Reply("users.POST", 403,
                                "Cannot create user with higher authority than yourself"))
            /\ UNCHANGED <<users, audit>>
       ELSE IF getUserByEmail(email) # NoUser THEN
            /\ Respond(b, Reply("users.POST", 400,
                                "Failed to create user (email may already exist)"))
            /\ UNCHANGED <<users, audit>>
       ELSE
            /\ users' = InsertUser(users, NewUserRow(email, authorityLevel))
            /\ audit' = logAudit(audit, cookie[b].user.userId, "USER_CREATED",
                                 toLowerCase(email))
            /\ Respond(b, Reply("users.POST", 200, null))
    /\ Logged
    /\ UNCHANGED <<sessions, tokens, cookie, now, nextSid, ticks>>
    /\ UNCHANGED apprVars

\* the check all three combined routes start with: one test, one answer
MailCookieCheck(b, level) ==
    cookie[b].isLoggedIn /\ cookie[b].user # NoUser
        /\ cookie[b].user.authorityLevel >= level

\* POST of the combined route: create the mailbox, then the user
MailUsersPOST(b, email, authorityLevel, shouldCreateMailbox, mailOk) ==
    /\ CanLog
    /\ IF ~MailCookieCheck(b, ADMIN) THEN
            /\ Respond(b, Reply("mail.POST", 401, "Unauthorized"))
            /\ UNCHANGED <<users, audit>>
       ELSE IF getUserByEmail(email) # NoUser THEN
            /\ Respond(b, Reply("mail.POST", 409, "User already exists"))
            /\ UNCHANGED <<users, audit>>
       ELSE IF shouldCreateMailbox /\ ~mailOk THEN
            /\ Respond(b, Reply("mail.POST", 500, "Failed to create mailbox"))
            /\ UNCHANGED <<users, audit>>
       ELSE
            /\ users' = InsertUser(users, NewUserRow(email, authorityLevel))
            /\ audit' = logAudit(audit, cookie[b].user.userId, "user.create", NewUserId)
            /\ Respond(b, [Reply("mail.POST", 200, null)
                              EXCEPT !.flag = Flag(shouldCreateMailbox)])
    /\ Logged
    /\ UNCHANGED <<sessions, tokens, cookie, now, nextSid, ticks>>
    /\ UNCHANGED apprVars

\* PUT of the combined route, for bodies that carry no password: the result
\* of updateUser is not looked at
MailUsersPUT(b, userId, authorityLevel, enabled) ==
    /\ CanLog
    /\ IF ~MailCookieCheck(b, ADMIN) THEN
            /\ Respond(b, Reply("mail.PUT", 401, "Unauthorized"))
            /\ UNCHANGED <<users, audit>>
       ELSE
            /\ users' = IF userId \in DOMAIN users
                        THEN updateUser(users, userId, authorityLevel, enabled)
                        ELSE users
            /\ audit' = logAudit(audit, cookie[b].user.userId, "user.update", userId)
            /\ Respond(b, Reply("mail.PUT", 200, null))
    /\ Logged
    /\ UNCHANGED <<sessions, tokens, cookie, now, nextSid, ticks>>
    /\ UNCHANGED apprVars

\* DELETE of the combined route: delete the mailbox, then the user; neither
\* result is looked at
MailUsersDELETE(b, userId, mailOk) ==
    /\ CanLog
    /\ IF ~MailCookieCheck(b, SUPERUSER) THEN
            /\ Respond(b, Reply("mail.DELETE", 401, "Unauthorized - requires SUPERUSER"))
            /\ UNCHANGED <<users, sessions, audit>>
       ELSE
            /\ IF deleteUser(userId)
               THEN /\ users' = RemoveUser(users, userId)
                    /\ sessions' = OnDeleteCascade(sessions, userId)
               ELSE UNCHANGED <<users, sessions>>
            /\ audit' = logAudit(audit, cookie[b].user.userId, "user.delete", userId)
            /\ Respond(b, Reply("mail.DELETE", 200, null))
    /\ Logged
    /\ UNCHANGED <<tokens, cookie, now, nextSid, ticks>>
    /\ UNCHANGED apprVars

\* String.prototype.length on the passwords the model uses
length(password) == IF password = "short" THEN 5 ELSE 8

\* POST of the password change: the auth store first, then the mail server
PasswordPOST(b, currentPassword, newPassword, mailOk) ==
    /\ CanLog
    /\ IF ~cookie[b].isLoggedIn \/ cookie[b].user = NoUser THEN
            /\ Respond(b, Reply("password.POST", 401, "Unauthorized"))
            /\ UNCHANGED <<users, audit>>
       ELSE IF length(newPassword) < 8 THEN
            /\ Respond(b, Reply("password.POST", 400,
                                "New password must be at least 8 characters"))
            /\ UNCHANGED <<users, audit>>
       ELSE IF getUserById(cookie[b].user.userId) = NoUser THEN
            /\ Respond(b, Reply("password.POST", 404, "User not found"))
            /\ UNCHANGED <<users, audit>>
       ELSE IF ~verifyPassword(currentPassword,
                               getUserById(cookie[b].user.userId).password_hash) THEN
            /\ Respond(b, Reply("password.POST", 401, "Current password is incorrect"))
            /\ UNCHANGED <<users, audit>>
       ELSE
            /\ users' = [users EXCEPT ![cookie[b].user.userId].password_hash =
                                          hashPassword(newPassword)]
            /\ audit' = logAudit(audit, cookie[b].user.userId, "PASSWORD_CHANGED",
                                 getUserById(cookie[b].user.userId).email)
            /\ Respond(b, [Reply("password.POST", 200, null) EXCEPT !.flag = Flag(mailOk)])
    /\ Logged
    /\ UNCHANGED <<sessions, tokens, cookie, now, nextSid, ticks>>
    /\ UNCHANGED apprVars

----------------------------------------------------------------------------

(* PUT /api/auth/recovery-codes: use a recovery code in place of the TOTP *)

toUpperCase(code) == CASE code = "c1" -> "C1" [] code = "c2" -> "C2" [] OTHER -> code

\* bcrypt.compare(code, hash)
bcryptCompare(code, hash) == hash = <<"bcrypt", code>>

\* a handler that stores the array as it read it
splice_Keep(hashedCodes, matchedIndex) == hashedCodes

\* hashedCodes.splice(matchedIndex, 1)
splice(hashedCodes, matchedIndex) ==
    [i \in 1..(Len(hashedCodes) - 1) |->
        IF i < matchedIndex THEN hashedCodes[i] ELSE hashedCodes[i + 1]]

\* the loop over hashedCodes: the first index that compares equal, 0 if none
matchedIndex(code, hashedCodes) ==
    LET hits == {i \in 1..Len(hashedCodes) : bcryptCompare(toUpperCase(code), hashedCodes[i])}
    IN IF hits = {} THEN 0 ELSE CHOOSE i \in hits : \A j \in hits : i <= j

\* the codes clients type
CodeInputs == {"c1", "C1", "C2", "zz"}

\* PUT up to the first `await bcrypt.compare`: the guard on the cookie and
\* the SELECT of the stored codes
RecoveryPUT_read(b, code) ==
    /\ req[b].op # "recover"
    /\ IF ~cookie[b].pending2FA \/ cookie[b].pendingUserId = null THEN
            /\ Respond(b, Reply("recovery.PUT", 400, "No pending 2FA verification"))
            /\ UNCHANGED req
       ELSE IF getUserById(cookie[b].pendingUserId) = NoUser
               \/ getUserById(cookie[b].pendingUserId).recovery_codes = <<>> THEN
            /\ Respond(b, Reply("recovery.PUT", 400, "No recovery codes found"))
            /\ UNCHANGED req
       ELSE
            /\ req' = [req EXCEPT ![b] = [Idle EXCEPT !.op = "recover", !.code = code,
                          !.snap = getUserById(cookie[b].pendingUserId).recovery_codes]]
            /\ UNCHANGED resp
    /\ UNCHANGED <<users, sessions, approvals, audit, tokens, cookie, now, nextSid,
                   nextAid, ticks, logged, auditDown, execCount, accepted, devices,
                   nextDid, call>>

\* PUT after the last `await bcrypt.compare`: the splice of the array read
\* earlier, the UPDATE that stores it, the audit row and the response
RecoveryPUT_write(b) ==
    /\ req[b].op = "recover"
    /\ CanLog
    /\ LET userId == cookie[b].pendingUserId
           hashedCodes == req[b].snap
           index == matchedIndex(req[b].code, hashedCodes)
       IN
       IF index = 0 THEN
            /\ audit' = logAudit(audit, userId, "RECOVERY_CODE_FAILED", null)
            /\ req' = [req EXCEPT ![b] = [Idle EXCEPT !.op = "done", !.code = req[b].code,
                                           !.status = 401,
                                           !.error = "Invalid recovery code"]]
            /\ UNCHANGED <<users, accepted>>
       ELSE
            /\ users' = IF userId \in DOMAIN users
                        THEN [users EXCEPT ![userId].recovery_codes = splice(hashedCodes, index)]
                        ELSE users
            /\ audit' = logAudit(audit, userId, "RECOVERY_CODE_USED", null)
            /\ req' = [req EXCEPT ![b] = [Idle EXCEPT !.op = "done", !.code = req[b].code,
                                           !.status = 200]]
            /\ accepted' = [accepted EXCEPT ![toUpperCase(req[b].code)] = @ + 1]
    /\ Logged
    /\ UNCHANGED <<sessions, approvals, tokens, cookie, resp, now, nextSid, nextAid,
                   ticks, execCount, devices, nextDid, call>>

----------------------------------------------------------------------------
(* Remembered devices (src/lib/db.ts).  The table has the primary key id and  *)
(* a plain index on user_id; no UNIQUE constraint names device_fingerprint.   *)

Fingerprints == {"fp1", "fp2"}

\* the state of the other tables, which the device functions leave alone
DeviceFrame ==
    UNCHANGED <<users, sessions, approvals, audit, tokens, cookie, req, now, nextSid,
                nextAid, ticks, logged, auditDown, execCount, accepted, call>>

\* INSERT OR REPLACE: the rows that collide with the new row on a PRIMARY KEY
\* or UNIQUE constraint are deleted, then the row is inserted
InsertOrReplace(rows, row) == {d \in rows : d.id # row.id} \cup {row}

\* addRememberedDevice(userId, deviceFingerprint, deviceName, ip): the id is a
\* fresh UUID; the insert throws when the user row does not exist
addRememberedDevice(userId, deviceFingerprint) ==
    /\ nextDid <= MaxDevices
    /\ IF userId \in DOMAIN users THEN
            /\ devices' = InsertOrReplace(devices,
                    [id |-> nextDid, user_id |-> userId,
                     device_fingerprint |-> deviceFingerprint])
            /\ nextDid' = nextDid + 1
            /\ Respond(svc, Reply("addRememberedDevice", 200, null))
       ELSE /\ Respond(svc, Reply("addRememberedDevice", 500, "FOREIGN KEY constraint failed"))
            /\ UNCHANGED <<devices, nextDid>>
    /\ DeviceFrame

removeRememberedDevice(deviceId) ==
    /\ devices' = {d \in devices : d.id # deviceId}
    /\ Respond(svc, [Reply("removeRememberedDevice", 200, null)
                        EXCEPT !.value = \E d \in devices : d.id = deviceId])
    /\ UNCHANGED nextDid
    /\ DeviceFrame

removeAllRememberedDevices(userId) ==
    /\ devices' = {d \in devices : d.user_id # userId}
    /\ Respond(svc, Reply("removeAllRememberedDevices", 200, null))
    /\ UNCHANGED nextDid
    /\ DeviceFrame

NextDevices ==
    \/ \E u \in AuthUsers, fp \in Fingerprints : addRememberedDevice(u, fp)
    \/ \E id \in 1..MaxDevices : removeRememberedDevice(id)
    \/ \E u \in AuthUsers : removeAllRememberedDevices(u)

SpecDevices == Init /\ [][NextDevices]_vars

----------------------------------------------------------------------------
(* Authority levels and permissions, and the checks of src/lib/auth.ts that  *)
(* read them.  Arrays are sequences.                                         *)

AuthorityLevels == 0..6

\* Object.values(PERMISSIONS), in declaration order
PERMISSIONS ==
    <<"mail:access", "mail:admin", "mail:shared_mailbox", "dashboard:view",
      "dashboard:appeals", "dashboard:users", "dashboard:analytics", "bot:commands",
      "bot:admin", "status:view", "status:manage", "auth:manage_users",
      "auth:manage_roles", "auth:view_audit">>

\* LEVEL_PERMISSIONS[authorityLevel] || []
LEVEL_PERMISSIONS(level) ==
    CASE level = 0 -> <<"mail:access", "dashboard:view", "status:view">>
      [] level = 1 -> <<"mail:access", "dashboard:view", "dashboard:appeals",
                        "bot:commands", "status:view">>
      [] level = 2 -> <<"mail:access", "dashboard:view", "dashboard:appeals",
                        "dashboard:analytics", "bot:commands", "status:view">>
      [] level = 3 -> <<"mail:access", "mail:admin", "dashboard:view",
                        "dashboard:appeals", "dashboard:users", "dashboard:analytics",
                        "bot:commands", "bot:admin", "status:view", "status:manage",
                        "auth:manage_users", "auth:view_audit">>
      [] level = 4 -> <<"mail:access", "dashboard:view", "dashboard:users",
                        "auth:manage_users", "auth:view_audit">>
      [] level = 5 -> PERMISSIONS
      [] level = 6 -> <<"mail:access", "dashboard:view", "bot:commands", "bot:admin",
                        "auth:view_audit">>
      [] OTHER -> <<>>

\* Array.prototype.includes
includes(array, x) == \E i \in 1..Len(array) : array[i] = x

hasPermission(authorityLevel, explicitPermissions, requiredPermission) ==
    IF includes(explicitPermissions, requiredPermission) THEN TRUE
    ELSE includes(LEVEL_PERMISSIONS(authorityLevel), requiredPermission)

\* Array.from(new Set(array)): the first occurrence of every element, in order
RECURSIVE ArrayFromSet(_)
ArrayFromSet(array) ==
    IF array = <<>> THEN <<>>
    ELSE LET front == ArrayFromSet(SubSeq(array, 1, Len(array) - 1))
             last == array[Len(array)]
         IN IF includes(front, last) THEN front ELSE Append(front, last)

\* effective permissions that are the defaults of the level alone
getEffectivePermissions_LevelOnly(authorityLevel, explicitPermissions) ==
    ArrayFromSet(LEVEL_PERMISSIONS(authorityLevel))

getEffectivePermissions(authorityLevel, explicitPermissions) ==
    ArrayFromSet(LEVEL_PERMISSIONS(authorityLevel) \o explicitPermissions)

\* JSON.stringify of an array of strings, as createUser stores it in
\* users.permissions
JSONstringify(array) == <<"json", array>>

\* JSON.parse(user.permissions || '[]')
JSONparse(text) == IF text = null THEN <<>> ELSE text[2]

\* the payload createToken signs for a user row, with the claims the checks
\* below read
AuthToken(user) ==
    [userId |-> user.id, authorityLevel |-> user.authority_level,
     permissions |-> getEffectivePermissions(user.authority_level,
                                             JSONparse(user.permissions))]

\* `user: AuthToken | null` when there is no token
NoAuthToken == [userId |-> null, authorityLevel |-> 0, permissions |-> <<>>]

requiresAuthority(user, requiredLevel) ==
    IF user = NoAuthToken THEN FALSE ELSE user.authorityLevel >= requiredLevel

requiresPermission(user, requiredPermission) ==
    IF user = NoAuthToken THEN FALSE ELSE includes(user.permissions, requiredPermission)

\* the explicit grants stored for a user: none, one the level may lack, several,
\* one listed twice
ExplicitGrants ==
    {<<>>, <<"mail:admin">>, <<"mail:shared_mailbox", "auth:manage_roles">>,
     <<"bot:admin", "mail:access", "bot:admin">>}

\* the user row the call is about
CallUser ==
    [id |-> "u1", authority_level |-> call.authorityLevel,
     permissions |-> JSONstringify(call.explicitPermissions)]

\* the tables, which the permission functions do not read or write
CallFrame ==
    UNCHANGED <<users, sessions, approvals, audit, tokens, cookie, req, resp, now,
                nextSid, nextAid, ticks, logged, auditDown, execCount, accepted,
                devices, nextDid>>

HasPermission ==
    /\ call.fn = "none"
    /\ call' = [call EXCEPT !.fn = "hasPermission",
                            !.result = hasPermission(call.authorityLevel,
                                                     call.explicitPermissions,
                                                     call.requiredPermission)]
    /\ CallFrame

GetEffectivePermissions ==
    /\ call.fn = "none"
    /\ call' = [call EXCEPT !.fn = "getEffectivePermissions",
                            !.result = getEffectivePermissions(call.authorityLevel,
                                                               call.explicitPermissions)]
    /\ CallFrame

\* requiresPermission on the token createToken builds for the user
RequiresPermission ==
    /\ call.fn = "none"
    /\ call' = [call EXCEPT !.fn = "requiresPermission",
                            !.result = requiresPermission(AuthToken(CallUser),
                                                          call.requiredPermission)]
    /\ CallFrame

\* requiresAuthority on the token createToken builds for the user
RequiresAuthority ==
    /\ call.fn = "none"
    /\ call' = [call EXCEPT !.fn = "requiresAuthority",
                            !.result = requiresAuthority(AuthToken(CallUser),
                                                         call.requiredLevel)]
    /\ CallFrame

InitPerms ==
    /\ users = InitUsers
    /\ sessions = {}
    /\ approvals = <<>>
    /\ audit = <<>>
    /\ tokens = {}
    /\ cookie = [b \in Browsers |-> defaultSession]
    /\ req = [b \in Browsers |-> Idle]
    /\ resp = NoResp
    /\ now = 0
    /\ nextSid = 1
    /\ nextAid = 1
    /\ ticks = 0
    /\ logged = 0
    /\ auditDown = FALSE
    /\ execCount = [a \in 1..MaxApprovals |-> 0]
    /\ accepted = [c \in Codes |-> 0]
    /\ devices = {}
    /\ nextDid = 1
    /\ \E level \in AuthorityLevels, explicit \in ExplicitGrants,
          i \in 1..Len(PERMISSIONS), requiredLevel \in AuthorityLevels :
            call = [NoCall EXCEPT !.authorityLevel = level,
                                  !.explicitPermissions = explicit,
                                  !.requiredPermission = PERMISSIONS[i],
                                  !.requiredLevel = requiredLevel]

NextPerms ==
    \/ HasPermission
    \/ GetEffectivePermissions
    \/ RequiresPermission
    \/ RequiresAuthority

SpecPerms == InitPerms /\ [][NextPerms]_vars

----------------------------------------------------------------------------
(* The clock *)

Tick(d) ==
    /\ ticks < MaxTicks
    /\ now' = now + d
    /\ ticks' = ticks + 1
    /\ UNCHANGED <<users, sessions, audit, tokens, cookie, resp, nextSid, logged, auditDown>>
    /\ UNCHANGED apprVars

----------------------------------------------------------------------------

Next ==
    \/ \E b \in AuthBrowsers : \E in \in LoginInputs(b), rememberMe \in BOOLEAN :
            Login(b, in[1], in[2], rememberMe)
    \/ \E t \in PresentedTokens, service \in BOOLEAN : ValidateRoute(t, service)
    \/ \E t \in PresentedTokens : Logout(svc, t, FALSE)
    \/ \E b \in AuthBrowsers : Logout(b, cookie[b].authToken, TRUE)
    \/ \E u \in AuthUsers : LogoutAll(u)
    \/ \E b \in AuthBrowsers, sid \in 0..MaxLogins, all \in BOOLEAN :
            SessionsDELETE(b, sid, all)
    \/ \E u \in AuthUsers : suspendUser(u)
    \/ \E u \in AuthUsers : unsuspendUser(u)
    \/ \E d \in TickSteps : Tick(d)

Spec == Init /\ [][Next]_vars

----------------------------------------------------------------------------
(* The administration console: three administrators are signed in (u3 from  *)
(* two devices) and use the approvals and users routes.                     *)

\* the token login signed for the user at time 0, without rememberMe
InitToken(user, sessionId) ==
    [userId |-> user, authorityLevel |-> InitUsers[user].authority_level,
     sessionId |-> sessionId, exp |-> SESSION_DURATION]

\* the session row login inserted with it
SignedIn(user, sessionId) ==
    [id |-> sessionId, user_id |-> user,
     token_hash |-> hashToken(InitToken(user, sessionId)),
     last_active |-> 0, is_remembered |-> FALSE, expires_at |-> SESSION_DURATION]

InitApproval ==
    /\ users = InitUsers
    /\ tokens = {InitToken(u[1], u[2]) :
                    u \in {<<"u1", 1>>, <<"u2", 2>>, <<"u3", 3>>, <<"u3", 4>>}}
    /\ sessions = {SignedIn("u1", 1), SignedIn("u2", 2), SignedIn("u3", 3),
                   SignedIn("u3", 4)}
    /\ approvals = <<>>
    /\ audit = <<[user_id |-> "u1", action |-> "LOGIN_SUCCESS", target |-> "u1@x"],
                 [user_id |-> "u2", action |-> "LOGIN_SUCCESS", target |-> "u2@x"],
                 [user_id |-> "u3", action |-> "LOGIN_SUCCESS", target |-> "u3@x"],
                 [user_id |-> "u3", action |-> "LOGIN_SUCCESS", target |-> "u3@x"]>>
    /\ cookie = [b \in Browsers |->
                    LET u == CASE b = "b1" -> "u1" [] b = "b2" -> "u2" [] OTHER -> "u3"
                        sid == CASE b = "b1" -> 1 [] b = "b2" -> 2 [] OTHER -> 4
                    IN [defaultSession EXCEPT
                          !.authToken = InitToken(u, sid),
                          !.user = [id |-> u, userId |-> u,
                                    authorityLevel |-> InitUsers[u].authority_level,
                                    sessionId |-> EmptyString],
                          !.isLoggedIn = TRUE]]
    /\ req = [b \in Browsers |-> Idle]
    /\ resp = [Reply("login", 200, null) EXCEPT !.to = "b3"]
    /\ now = 0
    /\ nextSid = 5
    /\ nextAid = 1
    /\ ticks = 0
    /\ logged = 0
    /\ auditDown = FALSE
    /\ execCount = [a \in 1..MaxApprovals |-> 0]
    /\ accepted = [c \in Codes |-> 0]
    /\ devices = {}
    /\ nextDid = 1
    /\ call = NoCall

\* who files requests and who looks at the list in this scenario
Requesters == {"b1", "b2"}
Viewers == {"b1"}
Decisions(b) == IF b = "b2" THEN {"approved", "maybe"} ELSE {"approved", "denied"}

NextApproval ==
    \/ \E b \in Viewers : ApprovalsGET(b)
    \/ \E b \in Requesters, in \in ApprovalInputs : ApprovalsPOST(b, in[1], in[2], in[3])
    \/ \E b \in Browsers, a \in 1..MaxApprovals : \E d \in Decisions(b) :
            ApprovalsPUT_begin(b, a, d)
    \/ \E b \in Browsers : ApprovalsPUT_decide(b)
    \/ \E u \in {"u3"} : suspendUser(u)
    \/ \E d \in SweepTickSteps : Tick(d)

SpecApproval == InitApproval /\ [][NextApproval]_vars

\* the same console, with the users routes next to the approval requests
NextUsers ==
    \/ \E b \in Browsers, in \in ApprovalInputs : ApprovalsPOST(b, in[1], in[2], in[3])
    \/ \E b \in Browsers, u \in {"u1", "u3"} : UsersDELETE(b, u)
    \/ \E b \in Browsers, in \in UserUpdates : UsersPUT(b, in[1], in[2], in[3])
    \/ \E u \in {"u3"} : suspendUser(u)

SpecUsers == InitApproval /\ [][NextUsers]_vars

----------------------------------------------------------------------------
\* token validation by a service while administrators disable and delete
\* users, sessions are ended and the tokens reach their expiry
NextValidate ==
    \/ \E t \in PresentedTokens, service \in BOOLEAN : ValidateRoute(t, service)
    \/ \E t \in PresentedTokens : Logout(svc, t, FALSE)
    \/ \E b \in Browsers, u \in {"u1", "u3"} : UsersDELETE(b, u)
    \/ \E b \in Browsers, in \in UserUpdates : UsersPUT(b, in[1], in[2], in[3])
    \/ \E d \in {SESSION_DURATION + 1} : Tick(d)

SpecValidate == InitApproval /\ [][NextValidate]_vars

\* the passwords clients type into the password change
PasswordInputs == {<<"pw3", "newpass3">>, <<"bad", "newpass3">>, <<"pw3", "short">>}

\* the console of InitApproval, with user management and mail provisioning
NextProvision ==
    \/ \E b \in Browsers, in \in CreateInputs : UsersPOST(b, in[1], in[2])
    \/ \E b \in Browsers, in \in CreateInputs : \E mailbox, mailOk \in BOOLEAN :
            MailUsersPOST(b, in[1], in[2], mailbox, mailOk)
    \/ \E b \in Browsers, in \in UserUpdates : MailUsersPUT(b, in[1], in[2], in[3])
    \/ \E b \in Browsers, u \in {"u3", NewUserId}, mailOk \in BOOLEAN :
            MailUsersDELETE(b, u, mailOk)
    \/ \E b \in {"b3"}, in \in PasswordInputs, mailOk \in BOOLEAN :
            PasswordPOST(b, in[1], in[2], mailOk)

SpecProvision == InitApproval /\ [][NextProvision]_vars

\* the state after construction, with the audit store working or failing
InitAudit ==
    /\ users = InitUsers
    /\ sessions = {}
    /\ approvals = <<>>
    /\ audit = <<>>
    /\ tokens = {}
    /\ cookie = [b \in Browsers |-> defaultSession]
    /\ req = [b \in Browsers |-> Idle]
    /\ resp = NoResp
    /\ now = 0
    /\ nextSid = 1
    /\ nextAid = 1
    /\ ticks = 0
    /\ logged = 0
    /\ auditDown \in BOOLEAN
    /\ execCount = [a \in 1..MaxApprovals |-> 0]
    /\ accepted = [c \in Codes |-> 0]
    /\ devices = {}
    /\ nextDid = 1
    /\ call = NoCall

\* sign-in, sign-out and an approval decision, with the audit store working
\* or failing throughout
NextAudit ==
    \/ \E b \in AuthBrowsers : \E in \in LoginInputs(b), rememberMe \in {FALSE} :
            Login(b, in[1], in[2], rememberMe)
    \/ \E t \in PresentedTokens : Logout(svc, t, FALSE)
    \/ \E u \in AuthUsers : LogoutAll(u)
    \/ \E b \in {"b2"} : ApprovalsPOST(b, "USER_SUSPEND", "u3", 0)
    \/ \E b \in {"b1"}, a \in 1..MaxApprovals, d \in {"approved", "denied"} :
            ApprovalsPUT_begin(b, a, d)
    \/ \E b \in {"b1"} : ApprovalsPUT_decide(b)

SpecAudit == InitAudit /\ [][NextAudit]_vars

\* sign-ins over time and calls of enforceSessionLimit
NextLimit ==
    \/ \E b \in AuthBrowsers : \E in \in LoginInputs(b), rememberMe \in BOOLEAN :
            Login(b, in[1], in[2], rememberMe)
    \/ \E u \in AuthUsers : enforceSessionLimit(u)
    \/ \E d \in {SESSION_DURATION + 1} : Tick(d)

SpecLimit == Init /\ [][NextLimit]_vars

\* sign-ins, idle time past the inactivity timeout, the expiry sweep and
\* validations
NextSweep ==
    \/ \E b \in AuthBrowsers : \E in \in LoginInputs(b), rememberMe \in BOOLEAN :
            Login(b, in[1], in[2], rememberMe)
    \/ cleanExpiredSessions
    \/ \E t \in PresentedTokens, service \in BOOLEAN : ValidateRoute(t, service)
    \/ \E d \in {SESSION_TIMEOUT_MINUTES + 1} : Tick(d)

SpecSweep == Init /\ [][NextSweep]_vars

\* the two ways a user row is deleted, by the users route and by an approved
\* USER_DELETE request, while services validate the users' tokens
NextDelete ==
    \/ \E b \in {"b2"} : ApprovalsPOST(b, "USER_DELETE", "u3", 0)
    \/ \E b \in {"b1", "b3"}, a \in 1..MaxApprovals : ApprovalsPUT_begin(b, a, "approved")
    \/ \E b \in Browsers : ApprovalsPUT_decide(b)
    \/ \E b \in Browsers, u \in UserIds : UsersDELETE(b, u)
    \/ \E t \in PresentedTokens, service \in BOOLEAN : ValidateRoute(t, service)

SpecDelete == InitApproval /\ [][NextDelete]_vars

\* sign-ins suspended at their await while a SUPERUSER deletes users
NextLoginRace ==
    \/ \E b \in AuthBrowsers : \E in \in LoginInputs(b), rememberMe \in BOOLEAN :
            Login_read(b, in[1], in[2], rememberMe)
    \/ \E b \in AuthBrowsers : Login_write(b)
    \/ \E b \in AuthBrowsers, u \in AuthUsers : UsersDELETE(b, u)
    \/ \E t \in PresentedTokens, service \in BOOLEAN : ValidateRoute(t, service)

SpecLoginRace == Init /\ [][NextLoginRace]_vars

(* Second factor by recovery code: u3 has TOTP enabled and two stored codes, *)
(* and two browsers hold the pending-2FA cookie the handler asks for.        *)

InitRecovery ==
    /\ users = [InitUsers EXCEPT !["u3"].totp_enabled = TRUE,
                                 !["u3"].recovery_codes = <<<<"bcrypt", "C1">>, <<"bcrypt", "C2">>>>]
    /\ sessions = {}
    /\ approvals = <<>>
    /\ audit = <<[user_id |-> "u3", action |-> "LOGIN_2FA_REQUIRED", target |-> "u3@x"],
                 [user_id |-> "u3", action |-> "LOGIN_2FA_REQUIRED", target |-> "u3@x"]>>
    /\ tokens = {}
    /\ cookie = [b \in Browsers |->
                    IF b \in AuthBrowsers
                    THEN [defaultSession EXCEPT !.pending2FA = TRUE, !.pendingUserId = "u3"]
                    ELSE defaultSession]
    /\ req = [b \in Browsers |-> Idle]
    /\ resp = [Reply("login2fa", 200, null) EXCEPT !.to = "b2"]
    /\ now = 0
    /\ nextSid = 1
    /\ nextAid = 1
    /\ ticks = 0
    /\ logged = 0
    /\ auditDown = FALSE
    /\ execCount = [a \in 1..MaxApprovals |-> 0]
    /\ accepted = [c \in Codes |-> 0]
    /\ devices = {}
    /\ nextDid = 1
    /\ call = NoCall

\* requests in any interleaving
NextRecovery ==
    \/ \E b \in Browsers, code \in CodeInputs : RecoveryPUT_read(b, code)
    \/ \E b \in Browsers : RecoveryPUT_write(b)

SpecRecovery == InitRecovery /\ [][NextRecovery]_vars

\* one request at a time: a PUT starts only when none is in flight
RecoveryPUT_readAlone(b, code) ==
    /\ \A c \in Browsers : req[c].op # "recover"
    /\ RecoveryPUT_read(b, code)

NextRecoverySeq ==
    \/ \E b \in Browsers, code \in CodeInputs : RecoveryPUT_readAlone(b, code)
    \/ \E b \in Browsers : RecoveryPUT_write(b)

SpecRecoverySeq == InitRecovery /\ [][NextRecoverySeq]_vars

----------------------------------------------------------------------------
(* Login with a second factor: u3 has TOTP enabled and two stored recovery  *)
(* codes; nobody is signed in.                                              *)

Init2FA ==
    /\ users = [InitUsers EXCEPT !["u3"].totp_enabled = TRUE,
                                 !["u3"].recovery_codes = <<<<"bcrypt", "C1">>, <<"bcrypt", "C2">>>>]
    /\ sessions = {}
    /\ approvals = <<>>
    /\ audit = <<>>
    /\ tokens = {}
    /\ cookie = [b \in Browsers |-> defaultSession]
    /\ req = [b \in Browsers |-> Idle]
    /\ resp = NoResp
    /\ now = 0
    /\ nextSid = 1
    /\ nextAid = 1
    /\ ticks = 0
    /\ logged = 0
    /\ auditDown = FALSE
    /\ execCount = [a \in 1..MaxApprovals |-> 0]
    /\ accepted = [c \in Codes |-> 0]
    /\ devices = {}
    /\ nextDid = 1
    /\ call = NoCall

Next2FA ==
    \/ \E b \in Browsers : \E in \in LoginInputs(b), rememberMe \in BOOLEAN :
            Login(b, in[1], in[2], rememberMe)
    \/ \E b \in Browsers, code \in CodeInputs : RecoveryPUT_read(b, code)
    \/ \E b \in Browsers : Logout(b, cookie[b].authToken, TRUE)

Spec2FA == Init2FA /\ [][Next2FA]_vars

----------------------------------------------------------------------------
(* Properties *)

\* the token was signed at login and its session row is gone
SessionRevoked(t) == t \in tokens /\ getSessionByTokenHash(hashToken(t)) = {}

NoSessions(u) == {s \in sessions : s.user_id = u} = {}

\* every token of u that still verifies is refused by validateToken
TokensRefused(u) == \A t \in tokens : t.userId = u => ~validateToken(t).valid

\* C1: once the session of a login-issued token has been deleted (logout,
\* session kill, logoutAll, suspension) it stays deleted, and validateToken
\* returns valid = false for the token in every later state, although the
\* token itself still verifies.
C1_RevokedTokenStaysInvalid ==
    [][\A t \in tokens :
          /\ SessionRevoked(t) => SessionRevoked(t)'
          /\ SessionRevoked(t)' => ~(validateToken(t).valid)']_vars

\* a revoked token that still verifies, of an enabled user, was presented to
\* the validate route and refused for its missing session
C1_Witness ==
    /\ resp.op = "validate"
    /\ resp.status = 401
    /\ resp.error = "Session not found or expired"
    /\ SessionRevoked(resp.arg)
    /\ jwtVerify(resp.arg)
    /\ resp.arg.userId \in DOMAIN users
    /\ users[resp.arg.userId].enabled

\* C4: a user never holds more than MAX_SESSIONS sessions: after
\* MAX_SESSIONS + 1 logins only MAX_SESSIONS rows remain.
C4_SessionLimit ==
    \A u \in UserIds : Cardinality({s \in sessions : s.user_id = u}) <= MAX_SESSIONS

\* C9: logout(T) while T is valid deletes the session, appends exactly one
\* LOGOUT row and returns true, after which T is no longer valid; logout(T)
\* while T is not valid returns false and changes neither sessions nor audit.
C9_LogoutTwice ==
    [][\A t \in PresentedTokens :
          Logout(svc, t, FALSE) =>
             IF validateToken(t).valid
             THEN /\ resp'.value
                  /\ sessions' = sessions \ getSessionByTokenHash(hashToken(t))
                  /\ Cardinality(sessions') = Cardinality(sessions) - 1
                  /\ audit' = Append(audit, [user_id |-> t.userId, action |-> "LOGOUT",
                                             target |-> t.userId])
                  /\ ~(validateToken(t).valid)'
             ELSE /\ ~resp'.value
                  /\ sessions' = sessions
                  /\ audit' = audit]_vars

\* logout was called again with the only token its user ever had, after the
\* call that logged it out, and returned false
C9_Witness ==
    /\ resp.op = "logout"
    /\ ~resp.value
    /\ resp.arg \in tokens
    /\ jwtVerify(resp.arg)
    /\ SessionRevoked(resp.arg)
    /\ {t \in tokens : t.userId = resp.arg.userId} = {resp.arg}
    /\ \E i \in DOMAIN audit :
          audit[i] = [user_id |-> resp.arg.userId, action |-> "LOGOUT",
                      target |-> resp.arg.userId]

\* the step in which the PUT of browser b runs from its SELECT to its response
DecideStep(b) == req[b].op = "decide" /\ req'[b].op = "done"

\* C2: a decide call whose caller is the requester is rejected whatever the
\* caller's level: the row, the users and the sessions stay as they are and
\* nothing is executed; every approved or denied request has an approver
\* different from its requester.
C2_NoSelfApproval ==
    [][/\ \A b \in Browsers :
             (/\ DecideStep(b)
              /\ req[b].aid \in DOMAIN approvals
              /\ approvals[req[b].aid].requester_id = cookie[b].user.userId)
             => /\ req'[b].status # 200
                /\ ~req'[b].wrote
                /\ approvals' = approvals
                /\ users' = users
                /\ sessions' = sessions
                /\ execCount' = execCount
       /\ \A a \in DOMAIN approvals' :
             approvals'[a].status \in {"approved", "denied"}
             => approvals'[a].approver_id # approvals'[a].requester_id]_vars

\* the SUPERUSER tried to decide a pending request of their own and was
\* refused
C2_Witness ==
    \E b \in Browsers :
        /\ req[b].op = "done"
        /\ req[b].status = 403
        /\ req[b].error = "Cannot approve your own request"
        /\ cookie[b].user.authorityLevel = SUPERUSER
        /\ approvals[req[b].aid].requester_id = cookie[b].user.userId
        /\ approvals[req[b].aid].status = "pending"

\* b holds the cookie of an administrator whose row exists and who did not
\* file request a
Eligible(b, a) ==
    /\ cookie[b].isLoggedIn
    /\ cookie[b].user.authorityLevel >= ADMIN
    /\ cookie[b].user.userId \in DOMAIN users
    /\ cookie[b].user.userId # approvals[a].requester_id

\* the call of b wrote its decision and ran the action once if it approved
DecideWrote(b) ==
    LET a == req[b].aid IN
    /\ req'[b].wrote
    /\ approvals'[a].status = req[b].decision
    /\ approvals'[a].approver_id = cookie[b].user.userId
    /\ execCount'[a] = execCount[a] + (IF req[b].decision = "approved" THEN 1 ELSE 0)

\* the call of b saw a resolved request and changed nothing
DecideResolved(b) ==
    /\ req'[b].error = "Request already resolved"
    /\ ~req'[b].wrote
    /\ approvals' = approvals
    /\ users' = users
    /\ sessions' = sessions
    /\ execCount' = execCount

C6_SuspensionClearsSessions ==
    [][/\ \A u \in UserIds :
             (suspendUser(u) /\ u \in DOMAIN users)
             => (users[u].suspended /\ NoSessions(u) /\ TokensRefused(u))'
       /\ \A b \in Browsers :
             (/\ DecideStep(b)
              /\ req'[b].wrote
              /\ req[b].decision = "approved"
              /\ approvals[req[b].aid].action_type = "USER_SUSPEND"
              /\ approvals[req[b].aid].target_user \in DOMAIN users)
             => LET u == approvals[req[b].aid].target_user IN
                (users[u].suspended /\ NoSessions(u) /\ TokensRefused(u))']_vars

\* u3, signed in from two devices, was suspended through an approved
\* USER_SUSPEND request: both sessions are gone and both tokens still verify
C6_Witness ==
    /\ "u3" \in DOMAIN users
    /\ users["u3"].suspended
    /\ NoSessions("u3")
    /\ Cardinality({t \in tokens : t.userId = "u3" /\ jwtVerify(t)}) = 2
    /\ \E a \in DOMAIN approvals :
          /\ approvals[a].status = "approved"
          /\ approvals[a].action_type = "USER_SUSPEND"
          /\ approvals[a].target_user = "u3"
          /\ execCount[a] = 1

\* the routes that answer only to a signed-in administrator
ProtectedOps == {"approvals.GET", "approvals.POST", "users.PUT", "users.DELETE"}

\* the session the browser's cookie was issued with is still in the table
CallerSessionLive(b) == getSessionByTokenHash(hashToken(cookie[b].authToken)) # {}

CallerEnabled(b) ==
    /\ cookie[b].user # NoUser
    /\ cookie[b].user.userId \in DOMAIN users
    /\ users[cookie[b].user.userId].enabled

\* C5: a protected operation is accepted only if, when it runs, the caller's
\* session is still in the session table and the caller's account is enabled.
C5_ProtectedNeedsLiveSession ==
    [][\A b \in Browsers :
          (/\ resp' # resp
           /\ resp'.to = b
           /\ resp'.op \in ProtectedOps
           /\ resp'.status = 200)
          => (CallerSessionLive(b) /\ CallerEnabled(b))]_vars

\* an approved request for this action on this user, decided by someone other
\* than the requester
ApprovedBefore(actionType, u) ==
    \E a \in DOMAIN approvals :
        /\ approvals[a].status = "approved"
        /\ approvals[a].action_type = actionType
        /\ approvals[a].target_user = u
        /\ approvals[a].approver_id # approvals[a].requester_id

\* C10: a user row is deleted, and the authority level of an administrator
\* is changed or a level of ADMIN or above is given, only after an approval
\* request for it was approved by a different actor.
C10_HighRiskNeedsApproval ==
    \A u \in UserIds :
        /\ u \notin DOMAIN users => ApprovedBefore("USER_DELETE", u)
        /\ (/\ u \in DOMAIN users
            /\ users[u].authority_level # InitUsers[u].authority_level
            /\ (InitUsers[u].authority_level >= ADMIN \/ users[u].authority_level >= ADMIN))
           => ApprovedBefore("AUTHORITY_CHANGE_ADMIN", u)

\* the stored codes of some user include the hash of code c
Stored(c) ==
    \E u \in DOMAIN users : \E i \in DOMAIN users[u].recovery_codes :
        bcryptCompare(c, users[u].recovery_codes[i])

\* C7: with one request at a time, a recovery code is accepted at most once
\* and is no longer stored once it has been accepted.
C7_AcceptedCodeRemoved ==
    \A c \in Codes : accepted[c] <= 1 /\ (accepted[c] = 1 => ~Stored(c))

\* code C1 was accepted once, then presented again and refused
C7_Witness ==
    \E b \in Browsers :
        /\ req[b].op = "done"
        /\ req[b].status = 401
        /\ toUpperCase(req[b].code) = "C1"
        /\ accepted["C1"] = 1
        /\ ~Stored("C1")

C11_ResolvedIsFinal ==
    [][\A a \in DOMAIN approvals :
          /\ a \in DOMAIN approvals'
          /\ approvals'[a].status \in {"pending", "approved", "denied", "expired"}
          /\ approvals[a].status # "pending" => approvals'[a] = approvals[a]]_vars

\* a request expired, an administrator who did not file it then tried to
\* decide it and was told it is resolved, and it is still expired
C11_Witness ==
    \E b \in Browsers :
        /\ req[b].op = "done"
        /\ req[b].error = "Request already resolved"
        /\ req[b].aid \in DOMAIN approvals
        /\ Eligible(b, req[b].aid)
        /\ approvals[req[b].aid].status = "expired"
        /\ approvals[req[b].aid].approver_id = null

\* the effect of request r is in place in the user and session tables
ActionApplied(r) ==
    LET t == r.target_user IN
    CASE r.action_type = "USER_DELETE" -> t # null /\ t \notin DOMAIN users
      [] r.action_type = "USER_SUSPEND" ->
            t \in DOMAIN users /\ users[t].suspended /\ NoSessions(t)
      [] r.action_type = "USER_UNSUSPEND" -> t \in DOMAIN users /\ ~users[t].suspended
      [] r.action_type = "AUTHORITY_CHANGE_ADMIN" ->
            t \in DOMAIN users /\ r.newLevel # 0 /\ users[t].authority_level = r.newLevel
      [] r.action_type = "RESET_2FA_ADMIN" -> t \in DOMAIN users /\ ~users[t].totp_enabled
      [] OTHER -> FALSE

\* C12: a decide call leaves a request approved only together with the
\* effect of its action on the user and session tables; when the action
\* fails or has no target or payload, the request is not left approved.
C12_ApprovedMeansExecuted ==
    [][\A b \in Browsers :
          (/\ DecideStep(b)
           /\ req[b].aid \in DOMAIN approvals
           /\ approvals[req[b].aid].status = "pending"
           /\ approvals'[req[b].aid].status = "approved")
          => ActionApplied(approvals[req[b].aid])']_vars

\* the login input names an enabled user with TOTP enabled and carries that
\* user's password
Correct2FALogin(email, password) ==
    /\ getUserByEmail(email) # NoUser
    /\ getUserByEmail(email).enabled
    /\ getUserByEmail(email).totp_enabled
    /\ verifyPassword(password, getUserByEmail(email).password_hash)

\* C13: a login with the correct password for a user with TOTP enabled
\* answers requires2FA, creates no session row and no token and leaves the
\* browser signed out; a user with TOTP enabled has no session and no token,
\* no second step having been completed.
C13_PendingLoginCreatesNothing ==
    [][/\ \A b \in Browsers : \A in \in LoginInputs(b), rememberMe \in BOOLEAN :
             (Login(b, in[1], in[2], rememberMe) /\ Correct2FALogin(in[1], in[2]))
             => /\ resp'.op = "login2fa"
                /\ sessions' = sessions
                /\ tokens' = tokens
                /\ ~cookie'[b].isLoggedIn
                /\ cookie'[b].pending2FA
       /\ \A u \in DOMAIN users' :
             users'[u].totp_enabled
             => /\ \A s \in sessions' : s.user_id # u
                /\ \A t \in tokens' : t.userId # u]_vars

\* u3 gave the right password, was asked for the second factor, and has no
\* session and no token
C13_Witness ==
    /\ resp.op = "login2fa"
    /\ resp.to = "b3"
    /\ cookie["b3"].pending2FA
    /\ users["u3"].totp_enabled
    /\ NoSessions("u3")
    /\ \A t \in tokens : t.userId # "u3"
    /\ \E i \in DOMAIN audit :
          audit[i].action = "LOGIN_2FA_REQUIRED" /\ audit[i].user_id = "u3"

\* C14: after login answered requires2FA in a browser, a stored recovery code
\* presented from that browser is taken up by the recovery handler rather
\* than refused, so that the login can be completed.
C14_RecoveryCompletesLogin ==
    [][\A b \in Browsers, code \in CodeInputs :
          (/\ RecoveryPUT_read(b, code)
           /\ cookie[b].pending2FA
           /\ Stored(toUpperCase(code)))
          => req'[b].op = "recover"]_vars

\* C15: login answers an unknown email and a wrong password for a known,
\* enabled user with one and the same result: failure, the generic error, no
\* token and no user; neither creates a session or changes the cookie.
C15_SameResultForUnknownAndWrong ==
    [][\A b \in AuthBrowsers : \A in \in LoginInputs(b), rememberMe \in BOOLEAN :
          (/\ Login(b, in[1], in[2], rememberMe)
           /\ \/ getUserByEmail(in[1]) = NoUser
              \/ /\ getUserByEmail(in[1]) # NoUser
                 /\ getUserByEmail(in[1]).enabled
                 /\ ~verifyPassword(in[2], getUserByEmail(in[1]).password_hash))
          => /\ resp' = [Reply("login", 401, "Invalid credentials") EXCEPT !.to = b]
             /\ sessions' = sessions
             /\ tokens' = tokens
             /\ cookie' = cookie]_vars

\* both failures happened, an unknown email and a wrong password for u2, and
\* the last answer is the generic one
C15_Witness ==
    /\ resp = [Reply("login", 401, "Invalid credentials") EXCEPT !.to = "b2"]
    /\ \E i \in DOMAIN audit :
          audit[i] = [user_id |-> null, action |-> "LOGIN_FAILED", target |-> "ghost@x"]
    /\ \E i \in DOMAIN audit :
          audit[i] = [user_id |-> "u2", action |-> "LOGIN_FAILED", target |-> "u2@x"]

\* what validateToken checks: the token verifies, a session row carries its
\* hash, and the user it names exists and is enabled
TokenVerifies(t) == t \in tokens /\ now < t.exp
SessionExistsFor(t) == \E s \in sessions : s.token_hash = hashToken(t)
UserEnabled(t) == t.userId \in DOMAIN users /\ users[t.userId].enabled

\* C16: validation answers valid exactly when the token verifies, a session
\* row exists for its hash and its user exists and is enabled; every other
\* case is answered invalid, with an error, and nothing else.
C16_ValidIffAllChecksPass ==
    [][\A t \in PresentedTokens, service \in BOOLEAN :
          ValidateRoute(t, service)
          => /\ resp'.status \in {200, 401}
             /\ resp'.status = 200
                  <=> (TokenVerifies(t) /\ SessionExistsFor(t) /\ UserEnabled(t))
             /\ resp'.status = 401
                  => resp'.error \in {"Invalid or expired token",
                                      "Session not found or expired", "User disabled"}]_vars

\* a token that verifies and still has its session is refused because its
\* user was disabled
C16_Witness ==
    /\ resp.op = "validate"
    /\ resp.status = 401
    /\ resp.error = "User disabled"
    /\ resp.arg \in tokens
    /\ TokenVerifies(resp.arg)
    /\ SessionExistsFor(resp.arg)
    /\ ~UserEnabled(resp.arg)

\* the authority level the caller behind browser b holds in the user table
CallerLevel(b) == IF cookie[b].user = NoUser THEN 0
                  ELSE IF getUserById(cookie[b].user.userId) = NoUser THEN 0
                  ELSE getUserById(cookie[b].user.userId).authority_level

\* the users a step created
Created == DOMAIN users' \ DOMAIN users

\* C17: no creation route produces a user whose authority level is above the
\* caller's; a request for a higher level creates no user.
C17_NoCreationAboveCaller ==
    [][\A b \in Browsers, in \in CreateInputs :
          (\/ UsersPOST(b, in[1], in[2])
           \/ \E mailbox, mailOk \in BOOLEAN : MailUsersPOST(b, in[1], in[2], mailbox, mailOk))
          => \A u \in Created : users'[u].authority_level <= CallerLevel(b)]_vars

\* the users whose authority level a step raised
Raised == {u \in DOMAIN users \cap DOMAIN users' :
              users'[u].authority_level > users[u].authority_level}

\* C18: no update of an existing user sets the authority level above the
\* level of the actor who performs the update.
C18_NoChangeAboveActor ==
    [][\A b \in Browsers, in \in UserUpdates :
          MailUsersPUT(b, in[1], in[2], in[3])
          => \A u \in Raised : users'[u].authority_level <= CallerLevel(b)]_vars

\* C19: a stored change of a user's authority level takes effect at once:
\* every later authorization decision of a protected route uses the level
\* stored now, also for sessions issued before the change.
C19_LevelChangeTakesEffect ==
    [][\A b \in Browsers, in \in UserUpdates :
          (/\ UsersPUT(b, in[1], in[2], in[3])
           /\ cookie[b].user # NoUser
           /\ getUserById(cookie[b].user.userId) # NoUser
           /\ resp'.status = 200)
          => CallerLevel(b) >= ADMIN]_vars

\* C20: when the mail server refuses the provisioning call that accompanies
\* a password change, a user creation or a user deletion, the change is
\* still made in the auth store and the response carries a flag saying
\* provisioning failed.
C20_MailFailureKeepsChange ==
    [][\A b \in Browsers :
          /\ \A in \in PasswordInputs :
                (/\ PasswordPOST(b, in[1], in[2], FALSE)
                 /\ cookie[b].user # NoUser
                 /\ getUserById(cookie[b].user.userId) # NoUser
                 /\ length(in[2]) >= 8
                 /\ verifyPassword(in[1], getUserById(cookie[b].user.userId).password_hash))
                => /\ users'[cookie[b].user.userId].password_hash = hashPassword(in[2])
                   /\ resp'.flag = Flag(FALSE)
          /\ \A in \in CreateInputs :
                (/\ MailUsersPOST(b, in[1], in[2], TRUE, FALSE)
                 /\ MailCookieCheck(b, ADMIN)
                 /\ getUserByEmail(in[1]) = NoUser)
                => /\ Created # {}
                   /\ resp'.flag = Flag(FALSE)
          /\ \A u \in {"u3", NewUserId} :
                (/\ MailUsersDELETE(b, u, FALSE)
                 /\ MailCookieCheck(b, SUPERUSER)
                 /\ u \in DOMAIN users)
                => /\ u \notin DOMAIN users'
                   /\ resp'.flag = Flag(FALSE)]_vars

\* C21: every failed login and every validation that answers invalid appends
\* one entry to the audit log.
C21_FailuresAreAudited ==
    [][/\ \A b \in AuthBrowsers : \A in \in LoginInputs(b), rememberMe \in BOOLEAN :
            (Login(b, in[1], in[2], rememberMe) /\ resp'.status = 401)
            => Len(audit') = Len(audit) + 1
       /\ \A t \in PresentedTokens, service \in BOOLEAN :
            (ValidateRoute(t, service) /\ ~validateToken(t).valid)
            => Len(audit') = Len(audit) + 1]_vars

\* C22: the audit log is append-only: every step leaves the entries already
\* written in place and unchanged, so the log before a step is a prefix of
\* the log after it, also when users are deleted and sessions are ended.
C22_AuditAppendOnly ==
    [][/\ Len(audit') >= Len(audit)
       /\ SubSeq(audit', 1, Len(audit)) = audit]_vars

\* u3 was deleted and a session was ended by logout; the entries written
\* about u3 while it existed are still in the log
C22_Witness ==
    /\ "u3" \notin DOMAIN users
    /\ \E i \in DOMAIN audit : audit[i].action = "USER_DELETED" /\ audit[i].target = "u3"
    /\ \E i \in DOMAIN audit : audit[i].action = "LOGOUT"
    /\ \E i \in DOMAIN audit : audit[i].action = "LOGIN_SUCCESS" /\ audit[i].user_id = "u3"

\* the login input names an enabled user without a second factor and carries
\* that user's password
CorrectLogin(email, password) ==
    /\ getUserByEmail(email) # NoUser
    /\ getUserByEmail(email).enabled
    /\ ~getUserByEmail(email).totp_enabled
    /\ verifyPassword(password, getUserByEmail(email).password_hash)

C24_ExpiryFollowsRememberMe ==
    [][\A b \in AuthBrowsers : \A in \in LoginInputs(b), rememberMe \in BOOLEAN :
          (Login(b, in[1], in[2], rememberMe) /\ resp'.status = 200 /\ resp'.op = "login")
          => LET token == cookie'[b].authToken
                 days == IF rememberMe THEN 30 ELSE 7
             IN /\ token \in tokens' \ tokens
                /\ token.exp = now + days * 24 * 60
                /\ \E s \in sessions' \ sessions :
                      /\ s.token_hash = hashToken(token)
                      /\ s.is_remembered = rememberMe
                      /\ s.expires_at = token.exp]_vars

\* after the clock moved, a login with rememberMe and one without are both
\* in the session table
C24_Witness ==
    /\ now > 0
    /\ \E s \in sessions : s.is_remembered /\ s.expires_at = now + EXTENDED_SESSION_DURATION
    /\ \E s \in sessions : ~s.is_remembered /\ s.expires_at = now + SESSION_DURATION

\* the sessions of a user whose expiry time has not passed
Unexpired(userId) == {s \in sessions : s.user_id = userId /\ s.expires_at > now}

\* C25: enforceSessionLimit(userId), for a user with k unexpired sessions:
\* when k >= MAX_SESSIONS exactly MAX_SESSIONS - 1 of them remain, those with
\* the greatest last_active; when k < MAX_SESSIONS nothing is deleted; the
\* sessions of other users are never touched.
C25_LimitKeepsNewest ==
    [][\A u \in AuthUsers :
          enforceSessionLimit(u)
          => /\ {s \in sessions : s.user_id # u} = {s \in sessions' : s.user_id # u}
             /\ sessions' \subseteq sessions
             /\ IF Cardinality(Unexpired(u)) < MAX_SESSIONS THEN sessions' = sessions
                ELSE /\ Cardinality(Unexpired(u) \cap sessions') = MAX_SESSIONS - 1
                     /\ \A k \in Unexpired(u) \cap sessions', d \in Unexpired(u) \ sessions' :
                            k.last_active >= d.last_active]_vars

\* C26: whenever login answers success with a token, a session row carrying
\* the hash of that token is in the table and validateToken accepts the
\* token right away.
C26_TokenHasSession ==
    [][\A b \in AuthBrowsers :
          (Login_write(b) /\ resp'.op = "login" /\ resp'.status = 200)
          => \A t \in tokens' :
                t = cookie'[b].authToken
                => /\ \E s \in sessions' : s.token_hash = hashToken(t)
                   /\ validateToken(t)'.valid]_vars

\* C27: a decide call by someone other than the requester on a pending
\* request whose expiry time has passed sets the request to expired, is
\* rejected, records no approver and executes nothing.
C27_LateDecideExpires ==
    [][\A b \in Browsers :
          (/\ DecideStep(b)
           /\ req[b].aid \in DOMAIN approvals
           /\ approvals[req[b].aid].status = "pending"
           /\ approvals[req[b].aid].requester_id # cookie[b].user.userId
           /\ approvals[req[b].aid].expires_at < now)
          => /\ approvals'[req[b].aid].status = "expired"
             /\ approvals'[req[b].aid].approver_id = null
             /\ req'[b].status = 400
             /\ req'[b].error = "Request has expired"
             /\ ~req'[b].wrote
             /\ execCount' = execCount
             /\ users' = users
             /\ sessions' = sessions]_vars

\* u1 tried to approve u2's request a minute after it ran out: the request is
\* expired, has no approver, and u3 is untouched
C27_Witness ==
    /\ req["b1"].op = "done"
    /\ req["b1"].error = "Request has expired"
    /\ Len(approvals) = 1
    /\ approvals[1].requester_id = "u2"
    /\ approvals[1].status = "expired"
    /\ approvals[1].approver_id = null
    /\ now = approvals[1].expires_at + 1
    /\ execCount[1] = 0
    /\ users = InitUsers

\* C28: after a listing of the approval requests (GET) has completed, no
\* request whose expiry time has passed still has status pending.
C28_ListingSweepsOverdue ==
    [][\A b \in Browsers :
          (ApprovalsGET(b) /\ resp'.status = 200)
          => \A a \in DOMAIN approvals' :
                ~(approvals'[a].status = "pending" /\ approvals'[a].expires_at < now)]_vars

\* the action types for which a request may be filed
AllowListed ==
    {"USER_DELETE", "AUTHORITY_CHANGE_ADMIN", "USER_SUSPEND", "USER_UNSUSPEND",
     "RESET_2FA_ADMIN"}

C30_ValidationTouchesSession ==
    [][\A t \in PresentedTokens, service \in BOOLEAN :
          (ValidateRoute(t, service) /\ validateToken(t).valid)
          => \A s \in sessions' :
                s.token_hash = hashToken(t) => s.last_active = now]_vars

----------------------------------------------------------------------------
(* C31 *)

\* the session stored for token t is valid as the specification defines it
SessionValid(t) ==
    \E s \in sessions :
        /\ s.token_hash = hashToken(t)
        /\ now < s.expires_at
        /\ ~s.is_remembered => now - s.last_active < SESSION_TIMEOUT_MINUTES

\* C31: a validation answers valid only for a token whose session is before
\* its expiry and, when not remembered, was active within the inactivity
\* timeout; and the expiry sweep keeps every remembered session that is before
\* its expiry.
C31_ValidOnlyWithinTimeout ==
    [][/\ \A t \in PresentedTokens, service \in BOOLEAN :
             (ValidateRoute(t, service) /\ validateToken(t).valid) => SessionValid(t)
       /\ cleanExpiredSessions
             => \A s \in sessions :
                    (s.is_remembered /\ now < s.expires_at) => s \in sessions']_vars

----------------------------------------------------------------------------
(* C32 *)

\* the session the caller's browser is signed in with
CurrentSession(b) == getSessionByTokenHash(hashToken(cookie[b].authToken))

\* C32: sessions DELETE never removes the caller's current session, and with
\* all = true it removes every other session of the caller.
C32_CurrentSessionSurvives ==
    [][\A b \in AuthBrowsers, sid \in 0..MaxLogins, all \in BOOLEAN :
          (SessionsDELETE(b, sid, all) /\ resp'.status = 200)
          => /\ CurrentSession(b) \subseteq sessions'
             /\ all => \A s \in sessions' :
                          s.user_id = cookie[b].user.userId => s \in CurrentSession(b)]_vars

----------------------------------------------------------------------------
(* C33 *)

\* C33: a user whose row was deleted has no session row, and every token
\* issued to that user is refused by validateToken.
C33_DeletedUserHasNoSession ==
    \A u \in UserIds \ DOMAIN users :
        /\ NoSessions(u)
        /\ \A t \in tokens : t.userId = u => ~validateToken(t).valid

\* a user deleted through an approved request held a token, and a service
\* has presented the token of a deleted user since
C33_Witness ==
    /\ \E u \in UserIds \ DOMAIN users : \E t \in tokens : t.userId = u
    /\ \E a \in DOMAIN approvals :
            /\ approvals[a].action_type = "USER_DELETE"
            /\ approvals[a].status = "approved"
            /\ approvals[a].target_user \notin DOMAIN users
    /\ resp.op = "validate" /\ resp.status = 401
    /\ resp.arg \in tokens /\ resp.arg.userId \notin DOMAIN users

----------------------------------------------------------------------------
(* C34 *)

\* C34: each user has at most one remembered-device record per device
\* fingerprint.
C34_OneRecordPerFingerprint ==
    \A d1, d2 \in devices :
        (d1.user_id = d2.user_id /\ d1.device_fingerprint = d2.device_fingerprint)
        => d1 = d2

----------------------------------------------------------------------------
(* C35 *)

\* the elements of an array
Elements(array) == {array[i] : i \in 1..Len(array)}

NoDuplicates(array) == \A i, j \in 1..Len(array) : array[i] = array[j] => i = j

\* C35: getEffectivePermissions returns the defaults of the level united with
\* the explicit grants, without duplicates; a permission is in it exactly when
\* hasPermission answers true; and requiresPermission on the token built for
\* the user answers the same.
C35_EffectivePermissionsAgree ==
    LET L == call.authorityLevel
        E == call.explicitPermissions
        p == call.requiredPermission
    IN
    /\ call.fn = "getEffectivePermissions"
       => /\ Elements(call.result) = Elements(LEVEL_PERMISSIONS(L)) \cup Elements(E)
          /\ NoDuplicates(call.result)
          /\ includes(call.result, p) <=> hasPermission(L, E, p)
    /\ call.fn = "hasPermission"
       => (call.result <=> p \in Elements(LEVEL_PERMISSIONS(L)) \cup Elements(E))
    /\ call.fn = "requiresPermission"
       => /\ call.result <=> hasPermission(L, E, p)
          /\ call.result <=> includes(getEffectivePermissions(L, E), p)

\* a token check answered true for a permission that the user's level lacks
\* and that was granted explicitly, next to a grant listed twice
C35_Witness ==
    /\ call.fn = "requiresPermission"
    /\ call.result = TRUE
    /\ ~includes(LEVEL_PERMISSIONS(call.authorityLevel), call.requiredPermission)
    /\ ~NoDuplicates(call.explicitPermissions)

----------------------------------------------------------------------------
(* C36 *)

\* C36: the default permissions grow with the authority level, so a user who
\* passes requiresAuthority for a level holds every default permission of that
\* level.
C36_LevelsAreMonotonic ==
    (call.fn = "requiresAuthority" /\ call.result = TRUE)
    => /\ call.requiredLevel <= call.authorityLevel
       /\ Elements(LEVEL_PERMISSIONS(call.requiredLevel))
              \subseteq Elements(LEVEL_PERMISSIONS(call.authorityLevel))
       /\ \A p \in Elements(LEVEL_PERMISSIONS(call.requiredLevel)) :
              requiresPermission(AuthToken(CallUser), p)

----------------------------------------------------------------------------
(* C37 *)

\* C37: a user whose suspended flag is set has no session.
C37_SuspendedHasNoSession ==
    \A u \in DOMAIN users : users[u].suspended => NoSessions(u)

----------------------------------------------------------------------------
(* C38 *)

\* the sessions of every user other than u are the same before and after
OtherSessionsKept(u) ==
    {s \in sessions : s.user_id # u} = {s \in sessions' : s.user_id # u}

\* every user row is the same before and after, but for u's suspended flag
\* (of the columns suspendUser writes, suspended, suspended_reason,
\* suspended_at, suspended_by and updated_at, the user rows carry the first)
OtherUserFieldsKept(u) ==
    /\ DOMAIN users' = DOMAIN users
    /\ \A v \in DOMAIN users :
          users'[v] = IF v = u THEN [users[v] EXCEPT !.suspended = users'[v].suspended]
                      ELSE users[v]

====
